---- MODULE Spec2Model ----
(***************************************************************************)
(* Model of fix_sheet.py: the sparse cell table, the five fixers, the      *)
(* crimp rule engine (declarative rules and hardcoded fallback), the       *)
(* gauge/colour splitter and the per-file pipeline of main.                *)
(*                                                                         *)
(* Text is a sequence of one-character strings, so that strip, split,      *)
(* upper and the regular expressions of the source are computed.           *)
(***************************************************************************)
EXTENDS Integers, Sequences, FiniteSets, TLC

VARIABLES
    src,        \* source_path of the file being processed
    rows,       \* rows of the table (get_rows): each row a sequence of cells
    input,      \* rows of the table as parse_tree returned them
    rules,      \* the loaded rule set (load_rules_file), NoRules when absent
    crimp_id,   \* --crimp-id of the fallback strategy
    prefer_when_both, \* --prefer-when-both of the fallback strategy
    max_per,    \* --max-per-file
    pc,         \* position of the run
    before,     \* rows as they were before the last crimp engine run
    writes,     \* per row, the set_cell_text calls of the last crimp engine run
    changed,    \* value returned by the last crimp engine run
    rule_used,  \* per row, index of the rule that reached the write contract (0: none)
    written,    \* chunks emitted by split_by_gauge_color, in order (in a run of main
                \* over several files: <<file index, chunk>>)
    in_paths,   \* --in: the input files of a run of main, each [path, doc]
    cur,        \* index in in_paths of the file main is processing (0: none)
    rules_file, \* what the rules path of main holds
    no_auto_crimp, \* --no-auto-crimp
    log         \* the calls made so far: <<file index, step>> in a run of main and of
                \* the fixers, <<position, cell returned>> for get_or_create_cell_at_position

vars == <<src, rows, input, rules, crimp_id, prefer_when_both, max_per, pc,
          before, writes, changed, rule_used, written, in_paths, cur, rules_file,
          no_auto_crimp, log>>

----------------------------------------------------------------------------
(* Text helpers (python str methods and the re patterns of the source)     *)

Lower == <<"a","b","c","d","e","f","g","h","i","j","k","l","m",
           "n","o","p","q","r","s","t","u","v","w","x","y","z">>

UpperCase == <<"A","B","C","D","E","F","G","H","I","J","K","L","M",
           "N","O","P","Q","R","S","T","U","V","W","X","Y","Z">>

Digits == <<"0","1","2","3","4","5","6","7","8","9">>

Range(f) == {f[i] : i \in DOMAIN f}

DigitSet == Range(Digits)

LowerSet == Range(Lower)

UpperSet == Range(UpperCase)

IsDigit(c) == c \in DigitSet

IsAlpha(c) == c \in LowerSet \/ c \in UpperSet

IsAlnum(c) == IsDigit(c) \/ IsAlpha(c)

IsWord(c) == IsAlnum(c) \/ c = "_"

IsSpace(c) == c \in {" ", "\t", "\n"}

DigitValOf == [c \in DigitSet |-> (CHOOSE i \in DOMAIN Digits : Digits[i] = c) - 1]

DigitVal(c) == DigitValOf[c]

UpperOf == [c \in LowerSet |-> UpperCase[CHOOSE i \in DOMAIN Lower : Lower[i] = c]]

LowerOf == [c \in UpperSet |-> Lower[CHOOSE i \in DOMAIN UpperCase : UpperCase[i] = c]]

UpperChar(c) == IF c \in LowerSet THEN UpperOf[c] ELSE c

\* str.upper()
Upper(s) == [i \in DOMAIN s |-> UpperChar(s[i])]

\* int() of a run of decimal digits
RECURSIVE ToInt(_)
ToInt(s) == IF s = << >> THEN 0 ELSE 10 * ToInt(SubSeq(s, 1, Len(s) - 1)) + DigitVal(s[Len(s)])

\* s[i..j] with python slice clipping
Slice(s, i, j) == IF i > j THEN << >> ELSE SubSeq(s, i, j)

\* str.strip()
Strip(s) ==
    LET keep == {i \in DOMAIN s : ~IsSpace(s[i])}
    IN  IF keep = {} THEN << >>
        ELSE LET lo == CHOOSE i \in keep : \A j \in keep : i <= j
                 hi == CHOOSE i \in keep : \A j \in keep : i >= j
             IN  SubSeq(s, lo, hi)

\* "sub in s"
Contains(s, sub) ==
    \E i \in 1..(Len(s) - Len(sub) + 1) : SubSeq(s, i, i + Len(sub) - 1) = sub

\* end (inclusive) of the longest run of positions marked in ok (a sequence of
\* booleans over s) that starts at i; i - 1 when position i is not marked
RECURSIVE RunEnd(_, _)
RunEnd(ok, i) == IF i <= Len(ok) /\ ok[i] THEN RunEnd(ok, i + 1) ELSE i - 1

MarkDigit(s) == [i \in DOMAIN s |-> IsDigit(s[i])]

MarkAlpha(s) == [i \in DOMAIN s |-> IsAlpha(s[i])]

MarkAlnum(s) == [i \in DOMAIN s |-> IsAlnum(s[i])]

MarkSpace(s) == [i \in DOMAIN s |-> IsSpace(s[i])]

MarkNonSpace(s) == [i \in DOMAIN s |-> ~IsSpace(s[i])]

\* [p for p in re.split(r"\s+", s.strip()) if p]
RECURSIVE SplitWS(_)
SplitWS(s) ==
    LET t == Strip(s)
    IN  IF t = << >> THEN << >>
        ELSE LET e == RunEnd(MarkNonSpace(t), 1)
             IN  <<SubSeq(t, 1, e)>> \o SplitWS(Slice(t, e + 1, Len(t)))

\* tok.split(":", 1)[0]
BeforeColon(tok) ==
    LET cs == {i \in DOMAIN tok : tok[i] = ":"}
    IN  IF cs = {} THEN tok
        ELSE Slice(tok, 1, (CHOOSE i \in cs : \A j \in cs : i <= j) - 1)

----------------------------------------------------------------------------
(* Optional values: << >> is None, <<v>> is the value v                    *)

None == << >>

Some(v) == <<v>>

Null == <<"n","u","l","l">>

MinOf(S) == CHOOSE i \in S : \A j \in S : i <= j

MaxOf(S) == CHOOSE i \in S : \A j \in S : i >= j

----------------------------------------------------------------------------
(* File name and label parsing                                             *)

\* os.path.basename
Basename(path) ==
    LET sl == {i \in DOMAIN path : path[i] = "/"}
    IN  IF sl = {} THEN path ELSE Slice(path, MaxOf(sl) + 1, Len(path))

\* os.path.splitext(b)[0]: cut at the last dot unless only dots precede it
SplitextRoot(b) ==
    LET dots == {i \in DOMAIN b : b[i] = "."}
    IN  IF dots = {} THEN b
        ELSE LET last == MaxOf(dots)
             IN  IF \A j \in 1..(last - 1) : b[j] = "." THEN b
                 ELSE SubSeq(b, 1, last - 1)

BaseOf(fname) == SplitextRoot(Basename(fname))

\* _section_re.search(base): [sS]\d+[A-Za-z]?
SectionSearch(base) ==
    LET st == {i \in DOMAIN base : /\ base[i] \in {"s", "S"}
                                   /\ i + 1 <= Len(base)
                                   /\ IsDigit(base[i + 1])}
    IN  IF st = {} THEN None
        ELSE LET i == MinOf(st)
                 d == RunEnd(MarkDigit(base), i + 1)
                 e == IF d + 1 <= Len(base) /\ IsAlpha(base[d + 1]) THEN d + 1 ELSE d
             IN  Some(SubSeq(base, i, e))

\* _panel_re.search(base): [pP][A-Za-z0-9]+
PanelSearch(base) ==
    LET st == {i \in DOMAIN base : /\ base[i] \in {"p", "P"}
                                   /\ i + 1 <= Len(base)
                                   /\ IsAlnum(base[i + 1])}
    IN  IF st = {} THEN None
        ELSE LET i == MinOf(st)
             IN  Some(SubSeq(base, i, RunEnd(MarkAlnum(base), i + 1)))

\* returns <<section, panel>>, each "null" when unmatched
parse_section_panel_from_filename(fname) ==
    LET base == BaseOf(fname)
        s == SectionSearch(base)
        p == PanelSearch(base)
    IN  <<IF s # None THEN s[1] ELSE Null, IF p # None THEN p[1] ELSE Null>>

\* _wireid_re.match(text.strip()): ^\s*(\d+)\s*-\s*([A-Za-z]+)\s*$
parse_gc(text) ==
    LET t == Strip(text)
        d == RunEnd(MarkDigit(t), 1)
        a == RunEnd(MarkSpace(t), d + 1)
        b == RunEnd(MarkSpace(t), a + 2)
        l == RunEnd(MarkAlpha(t), b + 1)
    IN  IF /\ d >= 1
           /\ a + 1 <= Len(t) /\ t[a + 1] = "-"
           /\ l >= b + 1
           /\ l = Len(t)
        THEN SubSeq(t, 1, d) \o SubSeq(t, b + 1, l)
        ELSE Null

\* re.match(r"[pP]([A-Za-z])(\d{1,2})$", p_token) -> <<panel letter, gauge>>
parse_panel_gauge_from_p_token(p_token) ==
    IF Len(p_token) < 2 THEN <<None, None>>
    ELSE IF /\ Len(p_token) \in {3, 4}
            /\ p_token[1] \in {"p", "P"}
            /\ IsAlpha(p_token[2])
            /\ \A i \in 3..Len(p_token) : IsDigit(p_token[i])
         THEN <<Some(<<UpperChar(p_token[2])>>), Some(ToInt(SubSeq(p_token, 3, Len(p_token))))>>
         ELSE <<None, None>>

\* re.search(r"\b(\d{1,2})\b", text)
extract_gauge_from_wire_id(text) ==
    LET st == {i \in DOMAIN text :
                  /\ IsDigit(text[i])
                  /\ (i = 1 \/ ~IsWord(text[i - 1]))
                  /\ LET e == RunEnd(MarkDigit(text), i)
                     IN  /\ e - i + 1 <= 2
                         /\ (e = Len(text) \/ ~IsWord(text[e + 1]))}
    IN  IF st = {} THEN None
        ELSE LET i == MinOf(st)
             IN  Some(ToInt(SubSeq(text, i, RunEnd(MarkDigit(text), i))))

\* -> <<left, right>>: first and last whitespace-delimited tokens, text after ":" cut
first_last_endpoint_tokens(aid) ==
    LET parts == SplitWS(aid)
    IN  IF parts = << >> THEN <<None, None>>
        ELSE <<Some(BeforeColon(parts[1])), Some(BeforeColon(parts[Len(parts)]))>>

AbBases == {<<"V","M","S","S">>, <<"A","M","S","S">>, <<"W","M">>, <<"F","M">>, <<"8","6">>}

Cbcs == <<"C","B","C","S">>

EndsWithCbcs(u) ==
    /\ Len(u) >= Len(Cbcs)
    /\ SubSeq(u, Len(u) - Len(Cbcs) + 1, Len(u)) = Cbcs
    /\ \A i \in 1..(Len(u) - Len(Cbcs)) : IsAlnum(u[i])

\* ARTICLE_TOKEN_RE.fullmatch(u)
ArticleTokenFullmatch(u) ==
    LET front == Slice(u, 1, Len(u) - 1)
        ab == Len(u) >= 1 /\ u[Len(u)] \in {"A", "B"}
    IN  \/ /\ Len(u) = 4
           /\ SubSeq(u, 1, 3) = <<"P","S","S">>
           /\ u[4] \in {"1", "2", "3", "4"}
        \/ u \in AbBases
        \/ (ab /\ front \in AbBases)
        \/ EndsWithCbcs(u)
        \/ (ab /\ EndsWithCbcs(front))

\* tok is an optional token
token_matches_endpoint(tok) ==
    tok # None /\ tok[1] # << >> /\ ArticleTokenFullmatch(Upper(tok[1]))

\* "PLCIO" in (text or "").upper()
has_plcio(text) == Contains(Upper(text), <<"P","L","C","I","O">>)

----------------------------------------------------------------------------
(* Cell table.  A row is the sequence of its Cell elements in document     *)
(* order.  A cell is [hasIdx, idx, hasData, text, type]: the ss:Index      *)
(* attribute (when present) and the Data child (when present).             *)

NewCell(pos_1b) ==
    [hasIdx |-> TRUE, idx |-> pos_1b, hasData |-> FALSE, text |-> << >>, type |-> "none"]

\* position of the i-th cell of a row: an explicit index overrides the running counter
RECURSIVE PosOf(_, _)
PosOf(row, i) ==
    IF row[i].hasIdx THEN row[i].idx
    ELSE IF i = 1 THEN 1 ELSE PosOf(row, i - 1) + 1

\* the (pos, cell) pairs of a row, as the sequence of positions
enumerate_cells_with_positions(row) == [i \in DOMAIN row |-> PosOf(row, i)]

\* dict(enumerate_cells_with_positions(row)): keys
Positions(row) == Range(enumerate_cells_with_positions(row))

\* dict(enumerate_cells_with_positions(row))[pos]: index of the cell kept for pos
\* (a later pair replaces an earlier one with the same key)
CellAt(row, pos) ==
    MaxOf({i \in DOMAIN row : enumerate_cells_with_positions(row)[i] = pos})

get_cell_text(cell) == IF cell.hasData THEN cell.text ELSE << >>

\* get_cell_text(pos2cell.get(col)) if col in pos2cell else ""
TextAt(row, col) == IF col \in Positions(row) THEN get_cell_text(row[CellAt(row, col)]) ELSE << >>

set_cell_text(cell, text, ss_type) ==
    [cell EXCEPT !.hasData = TRUE, !.text = text, !.type = ss_type]

GetOrCreateAlwaysAppends(row, pos_1b) == Append(row, NewCell(pos_1b))

GetOrCreateWithoutIndex(row, pos_1b) ==
    IF pos_1b \in Positions(row) THEN row
    ELSE Append(row, [NewCell(pos_1b) EXCEPT !.hasIdx = FALSE])

\* the row after the call; the cell returned is row'[CellAt(row', pos_1b)]
get_or_create_cell_at_position(row, pos_1b) ==
    IF pos_1b \in Positions(row) THEN row ELSE Append(row, NewCell(pos_1b))

\* set_cell_text(get_or_create_cell_at_position(row, pos), text, ss_type)
SetAt(row, pos, text, ss_type) ==
    LET r1 == get_or_create_cell_at_position(row, pos)
    IN  [r1 EXCEPT ![CellAt(r1, pos)] = set_cell_text(@, text, ss_type)]

ScanLimit == 80

ScanHeaderWholeTable(rs, anchor, i, lim) ==
    LET hit == {k \in i..Len(rs) :
                   \E c \in DOMAIN rs[k] : Strip(get_cell_text(rs[k][c])) = anchor}
    IN  IF hit = {} THEN None ELSE Some(MinOf(hit))

\* the scan "for i in range(min(scan_limit, len(rows)))" from row i on
RECURSIVE ScanHeader(_, _, _, _)
ScanHeader(rs, anchor, i, lim) ==
    IF i > lim THEN None
    ELSE IF \E k \in DOMAIN rs[i] : Strip(get_cell_text(rs[i][k])) = anchor THEN Some(i)
    ELSE ScanHeader(rs, anchor, i + 1, lim)

\* index of the header row, None when the anchor is in no scanned row (RuntimeError)
find_header_row_index(rs, anchor) ==
    ScanHeader(rs, anchor, 1, IF ScanLimit < Len(rs) THEN ScanLimit ELSE Len(rs))

\* find_header_row_index(rows, anchor, scan_limit) of fix_sheet.py
FindHeaderRowIndex(rs, anchor, scan_limit) ==
    ScanHeader(rs, anchor, 1, IF scan_limit < Len(rs) THEN scan_limit ELSE Len(rs))

\* U+200B, one of ZERO_WIDTH, as one character of a text
ZWSP == "ZWSP"

\* re.sub(r"\s+", " ", s) on a text whose white space is already " "
RECURSIVE CollapseSpaces(_)
CollapseSpaces(s) ==
    IF Len(s) < 2 THEN s
    ELSE IF s[1] = " " /\ s[2] = " " THEN CollapseSpaces(Tail(s))
    ELSE <<s[1]>> \o CollapseSpaces(Tail(s))

\* normalize_cell of build_main_from_wires.py: zero-width characters removed, tab and
\* newline made spaces, runs of white space collapsed, then strip
normalize_cell(s) ==
    LET kept   == {i \in DOMAIN s : s[i] # ZWSP}
        nth(k) == CHOOSE i \in kept : Cardinality({j \in kept : j <= i}) = k
        s1     == [k \in 1..Cardinality(kept) |-> s[nth(k)]]
        s2     == [k \in DOMAIN s1 |-> IF IsSpace(s1[k]) THEN " " ELSE s1[k]]
    IN  Strip(CollapseSpaces(s2))

\* the scan of find_header_row_index of build_main_from_wires.py from row i on
RECURSIVE ScanHeaderNormalized(_, _, _, _)
ScanHeaderNormalized(rs, anchor, i, lim) ==
    IF i > lim THEN None
    ELSE IF \E k \in DOMAIN rs[i] : normalize_cell(get_cell_text(rs[i][k])) = anchor THEN Some(i)
    ELSE ScanHeaderNormalized(rs, anchor, i + 1, lim)

\* find_header_row_index(rows, anchor, scan_limit) of build_main_from_wires.py
FindHeaderRowIndexNormalized(rs, anchor, scan_limit) ==
    ScanHeaderNormalized(rs, anchor, 1, IF scan_limit < Len(rs) THEN scan_limit ELSE Len(rs))

\* header_map(row).get(name): the last non-blank header cell with that text wins
HeaderGet(row, name) ==
    LET hit == {i \in DOMAIN row : Strip(get_cell_text(row[i])) = name}
    IN  IF name = << >> \/ hit = {} THEN None ELSE Some(PosOf(row, MaxOf(hit)))

\* hdr.get(name, default)
HeaderGetOr(row, name, default) ==
    IF HeaderGet(row, name) = None THEN default ELSE HeaderGet(row, name)[1]

OrderId == <<"O","r","d","e","r"," ","I","D">>

WireId == <<"W","i","r","e"," ","I","D">>

ArticleId == <<"A","r","t","i","c","l","e"," ","I","D">>

----------------------------------------------------------------------------
(* Crimp engine.  A row step returns [row, writes, changed, rule, raised]: *)
(* the row after the step, the set_cell_text calls made on it as <<column, *)
(* text, type>> in call order, what it adds to the returned count, the     *)
(* index of the rule that reached the write contract (0 when none did),    *)
(* and whether the step raised an exception.                               *)

LowerChar(c) == IF c \in UpperSet THEN LowerOf[c] ELSE c

\* str.lower()
LowerStr(s) == [i \in DOMAIN s |-> LowerChar(s[i])]

Left == <<"l","e","f","t">>

Right == <<"r","i","g","h","t">>

col15 == 15

col19 == 19

Untouched(row) == [row |-> row, writes |-> << >>, changed |-> 0, rule |-> 0, raised |-> FALSE]

\* the three "continue" tests on the current values of columns 15 and 19
AutoSkip(v15, v19, cid) ==
    \/ (Strip(v15) # << >> /\ Strip(v19) # << >>)
    \/ (Strip(v15) # << >> /\ Strip(v15) # cid)
    \/ (Strip(v19) # << >> /\ Strip(v19) # cid)

\* choose the target column, then flip when it is occupied and the other is empty
AutoTarget(left_ok, right_ok, v15, v19, prefer) ==
    LET prefer_col == IF LowerStr(prefer) = Left THEN 15 ELSE 19
        target == IF left_ok /\ right_ok THEN prefer_col
                  ELSE IF left_ok THEN 15 ELSE 19
    IN  IF target = 15 /\ Strip(v15) # << >> /\ Strip(v19) = << >> THEN 19
        ELSE IF target = 19 /\ Strip(v19) # << >> /\ Strip(v15) = << >> THEN 15
        ELSE target

AutoWriteBoth(row, target, cid) ==
    LET r1 == SetAt(SetAt(row, col15, cid, "String"), col19, cid, "String")
    IN  [row |-> r1,
         writes |-> << <<col15, cid, "String">>, <<col19, cid, "String">> >>,
         changed |-> 1, rule |-> 0, raised |-> FALSE]

AutoWriteOneNeighbour(row, target, cid) ==
    LET r1 == get_or_create_cell_at_position(row, target)
    IN  IF Strip(get_cell_text(r1[CellAt(r1, target)])) = << >>
        THEN [row |-> SetAt(SetAt(r1, target, cid, "String"), target - 1, << >>, "String"),
              writes |-> << <<target, cid, "String">>, <<target - 1, << >>, "String">> >>,
              changed |-> 1, rule |-> 0, raised |-> FALSE]
        ELSE [row |-> r1, writes |-> << >>, changed |-> 0, rule |-> 0, raised |-> FALSE]

\* write the crimp id if the target cell is empty, and blank its two left neighbours
AutoWrite(row, target, cid) ==
    LET r1 == get_or_create_cell_at_position(row, target)
    IN  IF Strip(get_cell_text(r1[CellAt(r1, target)])) = << >>
        THEN LET ks == IF target = 15 THEN <<14, 13>> ELSE <<18, 17>>
                 r2 == SetAt(r1, target, cid, "String")
                 r3 == SetAt(r2, ks[1], << >>, "String")
                 r4 == SetAt(r3, ks[2], << >>, "String")
             IN  [row |-> r4,
                  writes |-> << <<target, cid, "String">>,
                                <<ks[1], << >>, "String">>,
                                <<ks[2], << >>, "String">> >>,
                  changed |-> 1, rule |-> 0, raised |-> FALSE]
        ELSE [row |-> r1, writes |-> << >>, changed |-> 0, rule |-> 0, raised |-> FALSE]

AutoRowWithoutGaugeGate(row, col_wire, col_aid, panel_letter, gauge_from_name, cid, prefer) ==
    LET aid == Strip(TextAt(row, col_aid))
        toks == first_last_endpoint_tokens(aid)
        left_ok == token_matches_endpoint(toks[1])
        right_ok == token_matches_endpoint(toks[2])
        v15 == TextAt(row, col15)
        v19 == TextAt(row, col19)
    IN  IF aid = << >> THEN Untouched(row)
        ELSE IF ~left_ok /\ ~right_ok THEN Untouched(row)
        ELSE IF AutoSkip(v15, v19, cid) THEN Untouched(row)
        ELSE AutoWrite(row, AutoTarget(left_ok, right_ok, v15, v19, prefer), cid)

\* body of the data-row loop of apply_auto_crimp_endpoints
AutoRow(row, col_wire, col_aid, panel_letter, gauge_from_name, cid, prefer) ==
    LET gauge_ok == \/ gauge_from_name = Some(14)
                    \/ extract_gauge_from_wire_id(TextAt(row, col_wire)) = Some(14)
        aid == Strip(TextAt(row, col_aid))
        toks == first_last_endpoint_tokens(aid)
        left_ok == token_matches_endpoint(toks[1])
        right_ok == token_matches_endpoint(toks[2])
        v15 == TextAt(row, col15)
        v19 == TextAt(row, col19)
    IN  IF ~gauge_ok THEN Untouched(row)
        ELSE IF panel_letter # None /\ panel_letter # Some(<<"C">>) THEN Untouched(row)
        ELSE IF aid = << >> THEN Untouched(row)
        ELSE IF ~left_ok /\ ~right_ok THEN Untouched(row)
        ELSE IF AutoSkip(v15, v19, cid) THEN Untouched(row)
        ELSE AutoWrite(row, AutoTarget(left_ok, right_ok, v15, v19, prefer), cid)

\* an engine run over a table returns [err, rows, writes, changed, rule_used]
EngineFailed(rs) ==
    [err |-> TRUE, rows |-> rs, writes |-> [i \in DOMAIN rs |-> << >>],
     changed |-> 0, rule_used |-> [i \in DOMAIN rs |-> 0]]

RECURSIVE SumSeq(_)
SumSeq(q) == IF q = << >> THEN 0 ELSE q[1] + SumSeq(Tail(q))

\* collect the row steps st (a sequence over the table's rows) into a run result; a
\* step that raised ends the run with the exception
EngineResult(st) ==
    [err |-> \E i \in DOMAIN st : st[i].raised,
     rows |-> [i \in DOMAIN st |-> st[i].row],
     writes |-> [i \in DOMAIN st |-> st[i].writes],
     changed |-> SumSeq([i \in DOMAIN st |-> st[i].changed]),
     rule_used |-> [i \in DOMAIN st |-> st[i].rule]]

apply_auto_crimp_endpoints(rs, source_path, header_anchor, cid, prefer) ==
    LET h == find_header_row_index(rs, header_anchor)
    IN  IF h = None THEN EngineFailed(rs)
        ELSE
        LET hdr_idx == h[1]
            col_wire == HeaderGetOr(rs[hdr_idx], WireId, 11)
            col_aid == HeaderGetOr(rs[hdr_idx], ArticleId, 6)
            pg == parse_panel_gauge_from_p_token(parse_section_panel_from_filename(source_path)[2])
            panel_letter == pg[1]
            gauge_from_name == pg[2]
        IN  IF panel_letter # None /\ panel_letter # Some(<<"C">>)
            THEN EngineResult([i \in DOMAIN rs |-> Untouched(rs[i])])
            ELSE IF gauge_from_name # None /\ gauge_from_name # Some(0) /\ gauge_from_name # Some(14)
            THEN EngineResult([i \in DOMAIN rs |-> Untouched(rs[i])])
            ELSE EngineResult([i \in DOMAIN rs |->
                    IF i <= hdr_idx THEN Untouched(rs[i])
                    ELSE AutoRow(rs[i], col_wire, col_aid, panel_letter,
                                 gauge_from_name, cid, prefer)])

----------------------------------------------------------------------------
(* Declarative rules.  A rule is [panels, gauges, tokens_left,             *)
(* tokens_right, tokens_any, prefer_when_both, columns, crimp_id]: panels  *)
(* a set of texts and gauges a set of integers (empty: no filter), the     *)
(* token patterns sets of literal texts searched ignoring case,            *)
(* prefer_when_both an optional text, columns [left, right] (15/19 unless  *)
(* the rule overrides them).  A rule set is [defaults_prefer, rules].      *)

RuleMatchesIgnoringGauges(rule, panel_letter, filename_gauge, wire_id_text) ==
    ~ /\ rule.panels # {}
      /\ panel_letter # None
      /\ Upper(panel_letter[1]) \notin {Upper(q) : q \in rule.panels}

rule_matches_panel_gauge(rule, panel_letter, filename_gauge, wire_id_text) ==
    IF /\ rule.panels # {}
       /\ panel_letter # None
       /\ Upper(panel_letter[1]) \notin {Upper(q) : q \in rule.panels}
    THEN FALSE
    ELSE IF rule.gauges # {}
    THEN \/ (filename_gauge # None /\ filename_gauge[1] \in rule.gauges)
         \/ LET g == extract_gauge_from_wire_id(wire_id_text)
            IN  g # None /\ g[1] \in rule.gauges
    ELSE TRUE

\* bool(tok and any(r.search(tok) for r in regexes)), the regexes compiled IGNORECASE
any_match(tok, regexes) ==
    /\ tok # None
    /\ tok[1] # << >>
    /\ \E q \in regexes : Contains(Upper(tok[1]), Upper(q))

\* 15, 19, or 0 for None
decide_side_by_rule(rule, ltok, rtok, prefer) ==
    LET left0 == any_match(ltok, rule.tokens_left)
        right0 == any_match(rtok, rule.tokens_right)
        use_any == ~left0 /\ ~right0 /\ rule.tokens_any # {}
        left == IF use_any THEN any_match(ltok, rule.tokens_any) ELSE left0
        right == IF use_any THEN any_match(rtok, rule.tokens_any) ELSE right0
    IN  IF left /\ right THEN (IF prefer = Left THEN 15 ELSE 19)
        ELSE IF left THEN 15
        ELSE IF right THEN 19
        ELSE 0

\* the three "break" tests protecting an occupied side
RuleSkip(v_left, v_right, target_col, left_col, right_col, cid) ==
    \/ (Strip(v_left) # << >> /\ Strip(v_right) # << >>)
    \/ (Strip(v_left) # << >> /\ target_col = left_col /\ Strip(v_left) # cid)
    \/ (Strip(v_right) # << >> /\ target_col = right_col /\ Strip(v_right) # cid)

\* if the chosen side is occupied but the other is free, flip
RuleFlip(v_left, v_right, target_col, left_col, right_col) ==
    IF target_col = left_col /\ Strip(v_left) # << >> /\ Strip(v_right) = << >> THEN right_col
    ELSE IF target_col = right_col /\ Strip(v_right) # << >> /\ Strip(v_left) = << >> THEN left_col
    ELSE target_col

\* write the crimp id if the target cell is empty, and blank its two left neighbours
RuleWrite(row, target_col, left_col, right_col, cid, k) ==
    LET r1 == get_or_create_cell_at_position(row, target_col)
    IN  IF Strip(get_cell_text(r1[CellAt(r1, target_col)])) = << >>
        THEN LET ks == IF target_col = left_col THEN <<left_col - 1, left_col - 2>>
                       ELSE <<right_col - 1, right_col - 2>>
                 r2 == SetAt(r1, target_col, cid, "String")
                 r3 == SetAt(r2, ks[1], << >>, "String")
                 r4 == SetAt(r3, ks[2], << >>, "String")
             IN  [row |-> r4,
                  writes |-> << <<target_col, cid, "String">>,
                                <<ks[1], << >>, "String">>,
                                <<ks[2], << >>, "String">> >>,
                  changed |-> 1, rule |-> k, raised |-> FALSE]
        ELSE [row |-> r1, writes |-> << >>, changed |-> 0, rule |-> k, raised |-> FALSE]

\* the write contract of rule k (rs_rules[k] = rule) once it decided the side target
RuleApply(row, rule, k, target) ==
    LET left_col == rule.columns.left
        right_col == rule.columns.right
        target_col == IF target = 15 THEN left_col ELSE right_col
        r1 == get_or_create_cell_at_position(row, left_col)
        v_left == get_cell_text(r1[CellAt(r1, left_col)])
        r2 == get_or_create_cell_at_position(r1, right_col)
        v_right == get_cell_text(r2[CellAt(r2, right_col)])
    IN  IF Strip(v_left) # << >> /\ Strip(v_right) # << >>
        THEN [row |-> r2, writes |-> << >>, changed |-> 0, rule |-> k, raised |-> FALSE]
        \* rule["crimp_id"] is read by the next test that gets that far (KeyError)
        ELSE IF "crimp_id" \notin DOMAIN rule
        THEN [row |-> r2, writes |-> << >>, changed |-> 0, rule |-> k, raised |-> TRUE]
        ELSE IF RuleSkip(v_left, v_right, target_col, left_col, right_col, rule.crimp_id)
        THEN [row |-> r2, writes |-> << >>, changed |-> 0, rule |-> k, raised |-> FALSE]
        ELSE RuleWrite(r2, RuleFlip(v_left, v_right, target_col, left_col, right_col),
                       left_col, right_col, rule.crimp_id, k)

RECURSIVE RuleLoopTriesNextWhenBlocked(_, _, _, _, _, _, _, _)
RuleLoopTriesNextWhenBlocked(row, rl, k, prefer_default, panel_letter, filename_gauge, wire_txt, toks) ==
    IF k > Len(rl) THEN Untouched(row)
    ELSE LET prefer == LowerStr(IF rl[k].prefer_when_both # None /\ rl[k].prefer_when_both[1] # << >>
                                THEN rl[k].prefer_when_both[1] ELSE prefer_default)
             target == decide_side_by_rule(rl[k], toks[1], toks[2], prefer)
             matched == /\ rule_matches_panel_gauge(rl[k], panel_letter, filename_gauge, wire_txt)
                        /\ target \in {15, 19}
             res == RuleApply(row, rl[k], k, target)
         IN  IF matched /\ res.writes # << >> THEN res
             ELSE RuleLoopTriesNextWhenBlocked(IF matched THEN res.row ELSE row, rl, k + 1,
                      prefer_default, panel_letter, filename_gauge, wire_txt, toks)

\* "for rule in rules.get("rules", [])" from rule k on
RECURSIVE RuleLoop(_, _, _, _, _, _, _, _)
RuleLoop(row, rl, k, prefer_default, panel_letter, filename_gauge, wire_txt, toks) ==
    IF k > Len(rl) THEN Untouched(row)
    ELSE IF ~rule_matches_panel_gauge(rl[k], panel_letter, filename_gauge, wire_txt)
    THEN RuleLoop(row, rl, k + 1, prefer_default, panel_letter, filename_gauge, wire_txt, toks)
    ELSE LET prefer == LowerStr(IF rl[k].prefer_when_both # None /\ rl[k].prefer_when_both[1] # << >>
                                THEN rl[k].prefer_when_both[1] ELSE prefer_default)
             target == decide_side_by_rule(rl[k], toks[1], toks[2], prefer)
         IN  IF target \notin {15, 19}
             THEN RuleLoop(row, rl, k + 1, prefer_default, panel_letter, filename_gauge,
                           wire_txt, toks)
             ELSE RuleApply(row, rl[k], k, target)

\* body of the data-row loop of apply_crimp_rules
RuleRow(row, rl, col_wire, col_aid, prefer_default, panel_letter, filename_gauge) ==
    LET wire_txt == TextAt(row, col_wire)
        aid == Strip(TextAt(row, col_aid))
    IN  IF aid = << >> THEN Untouched(row)
        ELSE RuleLoop(row, rl, 1, prefer_default, panel_letter, filename_gauge, wire_txt,
                      first_last_endpoint_tokens(aid))

apply_crimp_rules(rs, source_path, rls, header_anchor) ==
    LET h == find_header_row_index(rs, header_anchor)
    IN  IF h = None THEN EngineFailed(rs)
        ELSE
        LET hdr_idx == h[1]
            col_wire == HeaderGetOr(rs[hdr_idx], WireId, 11)
            col_aid == HeaderGetOr(rs[hdr_idx], ArticleId, 6)
            pg == parse_panel_gauge_from_p_token(parse_section_panel_from_filename(source_path)[2])
            prefer_default == IF rls.defaults_prefer = None THEN Left ELSE rls.defaults_prefer[1]
        IN  EngineResult([i \in DOMAIN rs |->
                IF i <= hdr_idx THEN Untouched(rs[i])
                ELSE RuleRow(rs[i], rls.rules, col_wire, col_aid, prefer_default, pg[1], pg[2])])

----------------------------------------------------------------------------
(* Fixers.  Each takes the rows of the table and returns a run result as   *)
(* the crimp engine does: err when find_header_row_index raised, the rows  *)
(* after the fixer, the set_cell_text calls per row and the count returned.*)

BeginText == <<"P","r","i","n","t","e","r","1"," ","W","i","r","e","1"," ","B","e","g","i","n","T","e","x","t">>

EndText == <<"P","r","i","n","t","e","r","1"," ","W","i","r","e","1"," ","E","n","d","T","e","x","t">>

Printer1Id == <<"P","r","i","n","t","e","r","1"," ","I","D">>

ArticleGroup == <<"A","r","t","i","c","l","e"," ","G","r","o","u","p">>

BeginDistance == <<"P","r","i","n","t","e","r","1"," ","W","i","r","e","1"," ","B","e","g","i","n","D","i","s","t","a","n","c","e">>

EndlessDistance == <<"P","r","i","n","t","e","r","1"," ","W","i","r","e","1"," ","E","n","d","l","e","s","s","D","i","s","t","a","n","c","e">>

EndDistance == <<"P","r","i","n","t","e","r","1"," ","W","i","r","e","1"," ","E","n","d","D","i","s","t","a","n","c","e">>

WireLength == <<"W","i","r","e"," ","L","e","n","g","t","h">>

\* one set_cell_text call on the cell at col (created when absent), counted once
CellWrite(row, col, text, ss_type) ==
    [row |-> SetAt(row, col, text, ss_type), writes |-> << <<col, text, ss_type>> >>,
     changed |-> 1, rule |-> 0, raised |-> FALSE]

\* a row step followed by a second one made on the row the first one left
Chain(s1, s2) ==
    [row |-> s2.row, writes |-> s1.writes \o s2.writes,
     changed |-> s1.changed + s2.changed, rule |-> 0, raised |-> FALSE]

\* a fixer that returned 0 before its row loop
Returned0(rs) == EngineResult([i \in DOMAIN rs |-> Untouched(rs[i])])

\* clear_printer_texts, one column of one row: "if get_cell_text(c): set_cell_text(c, "")"
ClearCell(row, col) ==
    IF col \in Positions(row) /\ TextAt(row, col) # << >>
    THEN CellWrite(row, col, << >>, "String")
    ELSE Untouched(row)

\* clear_printer_texts on one row, for the columns (none, one or two) whose header exists
RECURSIVE ClearCells(_, _)
ClearCells(row, cols) ==
    IF cols = << >> THEN Untouched(row)
    ELSE LET s1 == ClearCell(row, cols[1])
         IN  Chain(s1, ClearCells(s1.row, Tail(cols)))

clear_printer_texts(rs, header_anchor) ==
    LET h == find_header_row_index(rs, header_anchor)
    IN  IF h = None THEN EngineFailed(rs)
        ELSE
        LET hdr_idx == h[1]
            b == HeaderGet(rs[hdr_idx], BeginText)
            e == HeaderGet(rs[hdr_idx], EndText)
            cols == b \o e
        IN  EngineResult([i \in DOMAIN rs |->
                IF i <= hdr_idx THEN Untouched(rs[i]) ELSE ClearCells(rs[i], cols)])

\* str.replace(ch, "")
RECURSIVE Remove(_, _)
Remove(s, ch) ==
    IF s = << >> THEN << >>
    ELSE (IF s[1] = ch THEN << >> ELSE <<s[1]>>) \o Remove(Tail(s), ch)

Printer1Row(row, col_wire, col_prn) ==
    LET wire_text == Strip(TextAt(row, col_wire))
        new_val == <<"A","W","G"," ">> \o Remove(Remove(wire_text, "-"), " ")
        r1 == get_or_create_cell_at_position(row, col_prn)
    IN  IF wire_text = << >> THEN Untouched(row)
        ELSE IF TextAt(r1, col_prn) # new_val THEN CellWrite(r1, col_prn, new_val, "String")
        ELSE Untouched(r1)

set_printer1_from_wireid(rs, header_anchor) ==
    LET h == find_header_row_index(rs, header_anchor)
    IN  IF h = None THEN EngineFailed(rs)
        ELSE
        LET hdr_idx == h[1]
            w == HeaderGet(rs[hdr_idx], WireId)
            p == HeaderGet(rs[hdr_idx], Printer1Id)
        IN  IF w = None \/ p = None THEN Returned0(rs)
            ELSE EngineResult([i \in DOMAIN rs |->
                    IF i <= hdr_idx THEN Untouched(rs[i]) ELSE Printer1Row(rs[i], w[1], p[1])])

\* _job_re.match(cur_ag): ^\s*([A-Za-z0-9]+)
JobMatch(cur_ag) ==
    LET a == RunEnd(MarkSpace(cur_ag), 1)
        e == RunEnd(MarkAlnum(cur_ag), a + 1)
    IN  IF e >= a + 1 THEN Some(SubSeq(cur_ag, a + 1, e)) ELSE None

\* re.search(r"([0-9]{4,}[A-Za-z]?)", base)
JobSearch(base) ==
    LET starts == {i \in DOMAIN base : RunEnd(MarkDigit(base), i) >= i + 3}
    IN  IF starts = {} THEN None
        ELSE LET i == MinOf(starts)
                 d == RunEnd(MarkDigit(base), i)
             IN  Some(SubSeq(base, i, IF d < Len(base) /\ IsAlpha(base[d + 1]) THEN d + 1 ELSE d))

ArticleGroupRow(row, col_ag, col_wire, section, panel, base) ==
    LET cur_ag == TextAt(row, col_ag)
        job == IF JobMatch(cur_ag) # None THEN JobMatch(cur_ag) ELSE JobSearch(base)
        gc == parse_gc(TextAt(row, col_wire))
        suffix == IF section # Null /\ panel # Null /\ gc # Null
                  THEN section \o panel \o gc ELSE Null
        final == (IF job # None /\ job[1] # << >> THEN job[1] ELSE Null) \o <<" ">> \o suffix
        r1 == get_or_create_cell_at_position(row, col_ag)
    IN  IF TextAt(r1, col_ag) # final THEN CellWrite(r1, col_ag, final, "String")
        ELSE Untouched(r1)

SetArticleGroupDefaultColumns(rs, source_path, header_anchor) ==
    LET h == find_header_row_index(rs, header_anchor)
    IN  IF h = None THEN EngineFailed(rs)
        ELSE
        LET hdr_idx == h[1]
            sp == parse_section_panel_from_filename(source_path)
        IN  EngineResult([i \in DOMAIN rs |->
                IF i <= hdr_idx THEN Untouched(rs[i])
                ELSE ArticleGroupRow(rs[i], HeaderGetOr(rs[hdr_idx], ArticleGroup, 2),
                                     HeaderGetOr(rs[hdr_idx], WireId, 3), sp[1], sp[2],
                                     BaseOf(source_path))])

set_article_group(rs, source_path, header_anchor) ==
    LET h == find_header_row_index(rs, header_anchor)
    IN  IF h = None THEN EngineFailed(rs)
        ELSE
        LET hdr_idx == h[1]
            ag == HeaderGet(rs[hdr_idx], ArticleGroup)
            w == HeaderGet(rs[hdr_idx], WireId)
            sp == parse_section_panel_from_filename(source_path)
        IN  IF ag = None \/ w = None THEN Returned0(rs)
            ELSE EngineResult([i \in DOMAIN rs |->
                    IF i <= hdr_idx THEN Untouched(rs[i])
                    ELSE ArticleGroupRow(rs[i], ag[1], w[1], sp[1], sp[2], BaseOf(source_path))])

\* str(v) of the values 0.79, 4, 0.79
DistanceVals == << <<"0",".","7","9">>, <<"4">>, <<"0",".","7","9">> >>

DistanceCell(row, col, v) ==
    LET r1 == get_or_create_cell_at_position(row, col)
    IN  IF TextAt(r1, col) # v THEN CellWrite(r1, col, v, "Number") ELSE Untouched(r1)

DistanceCellsAlwaysWritten(row, cols, k) ==
    LET s1 == CellWrite(row, cols[1], DistanceVals[1], "Number")
        s2 == Chain(s1, CellWrite(s1.row, cols[2], DistanceVals[2], "Number"))
    IN  Chain(s2, CellWrite(s2.row, cols[3], DistanceVals[3], "Number"))

\* "for col, v in zip(cols, vals)" on one row, from the k-th pair on
RECURSIVE DistanceCells(_, _, _)
DistanceCells(row, cols, k) ==
    IF k > 3 THEN Untouched(row)
    ELSE LET s1 == DistanceCell(row, cols[k], DistanceVals[k])
         IN  Chain(s1, DistanceCells(s1.row, cols, k + 1))

set_last_three_distances(rs, header_anchor) ==
    LET h == find_header_row_index(rs, header_anchor)
    IN  IF h = None THEN EngineFailed(rs)
        ELSE
        LET hdr_idx == h[1]
            b == HeaderGet(rs[hdr_idx], BeginDistance)
            l == HeaderGet(rs[hdr_idx], EndlessDistance)
            e == HeaderGet(rs[hdr_idx], EndDistance)
        IN  IF b = None \/ l = None \/ e = None THEN Returned0(rs)
            ELSE EngineResult([i \in DOMAIN rs |->
                    IF i <= hdr_idx THEN Untouched(rs[i])
                    ELSE DistanceCells(rs[i], <<b[1], l[1], e[1]>>, 1)])

WireLengthRow(row, col_len) ==
    IF col_len \in Positions(row) /\ Strip(TextAt(row, col_len)) = <<"3","0","0">>
    THEN CellWrite(row, col_len, <<"2","0","0">>, "Number")
    ELSE Untouched(row)

fix_wire_length_for_null_files(rs, source_path, header_anchor) ==
    IF ~Contains(Basename(source_path), Null) THEN Returned0(rs)
    ELSE
    LET h == find_header_row_index(rs, header_anchor)
    IN  IF h = None THEN EngineFailed(rs)
        ELSE
        LET hdr_idx == h[1]
            c == HeaderGet(rs[hdr_idx], WireLength)
        IN  IF c = None THEN Returned0(rs)
            ELSE EngineResult([i \in DOMAIN rs |->
                    IF i <= hdr_idx THEN Untouched(rs[i]) ELSE WireLengthRow(rs[i], c[1])])

----------------------------------------------------------------------------
(* Splitter.  groups is the dict of split_by_gauge_color in insertion      *)
(* order: a sequence of [gc, is_plcio, rs], rs the data rows of the group  *)
(* (as their indices in the table) in append order.  An emitted chunk is   *)
(* [name, gc, is_plcio, i, chunk, table]: chunk the rows rs[i*max_per :    *)
(* (i+1)*max_per], table the rows of the document written for it.          *)

\* str(n) for n >= 0
RECURSIVE ToStr(_)
ToStr(n) == IF n < 10 THEN <<Digits[n + 1]>> ELSE ToStr(n \div 10) \o <<Digits[(n % 10) + 1]>>

\* f"{n:02d}"
Format02d(n) == IF n < 10 THEN <<"0">> \o ToStr(n) ELSE ToStr(n)

\* math.ceil(a / b) for a >= 0, b >= 1
Ceil(a, b) == (a + b - 1) \div b

\* rs[lo:hi] of a python list (0-based, hi exclusive, clipped to the list)
PySlice(rs, lo, hi) == Slice(rs, lo + 1, IF hi < Len(rs) THEN hi ELSE Len(rs))

GroupPrepend(groups, gc, is_plcio, r) ==
    LET hit == {k \in DOMAIN groups : groups[k].gc = gc /\ groups[k].is_plcio = is_plcio}
    IN  IF hit = {} THEN Append(groups, [gc |-> gc, is_plcio |-> is_plcio, rs |-> <<r>>])
        ELSE [groups EXCEPT ![CHOOSE k \in hit : TRUE].rs = <<r>> \o @]

\* groups.setdefault((gc, is_plcio), []).append(r)
GroupAppend(groups, gc, is_plcio, r) ==
    LET hit == {k \in DOMAIN groups : groups[k].gc = gc /\ groups[k].is_plcio = is_plcio}
    IN  IF hit = {} THEN Append(groups, [gc |-> gc, is_plcio |-> is_plcio, rs |-> <<r>>])
        ELSE [groups EXCEPT ![CHOOSE k \in hit : TRUE].rs = Append(@, r)]

\* key of a data row: <<gc, is_plcio>>; col_aid is an optional column
GroupKey(row, col_wire, col_aid) ==
    <<parse_gc(TextAt(row, col_wire)),
      IF col_aid # None THEN has_plcio(TextAt(row, col_aid[1])) ELSE FALSE>>

\* the grouping loop over rows r..Len(rs)
RECURSIVE BuildGroups(_, _, _, _, _)
BuildGroups(rs, r, col_wire, col_aid, groups) ==
    IF r > Len(rs) THEN groups
    ELSE LET key == GroupKey(rs[r], col_wire, col_aid)
         IN  BuildGroups(rs, r + 1, col_wire, col_aid, GroupAppend(groups, key[1], key[2], r))

\* clone_with_header, then the chunk's rows appended
ChunkTable(rs, hdr_idx, chunk) == SubSeq(rs, 1, hdr_idx) \o [j \in DOMAIN chunk |-> rs[chunk[j]]]

ChunkCountFloor(total, mp) == IF total \div mp < 1 THEN 1 ELSE total \div mp

\* chunks = max(1, math.ceil(total / max_per))
ChunkCount(total, mp) == IF Ceil(total, mp) < 1 THEN 1 ELSE Ceil(total, mp)

ChunkRowsOverlap(rs, i, mp) == PySlice(rs, i * mp, (i + 1) * mp + 1)

\* chunk = rs[i * max_per:(i + 1) * max_per]
ChunkRows(rs, i, mp) == PySlice(rs, i * mp, (i + 1) * mp)

\* the chunks written for one group, in order
GroupChunks(rs, hdr_idx, g, section, panel, mp) ==
    LET key == section \o panel \o g.gc \o (IF g.is_plcio THEN <<"_","P","L","C","I","O">> ELSE << >>)
        chunks == ChunkCount(Len(g.rs), mp)
    IN  [n \in 1..chunks |->
            [name |-> key \o (IF chunks > 1 THEN <<"_">> \o Format02d(n) ELSE << >>),
             gc |-> g.gc, is_plcio |-> g.is_plcio, i |-> n - 1,
             chunk |-> ChunkRows(g.rs, n - 1, mp),
             table |-> ChunkTable(rs, hdr_idx, ChunkRows(g.rs, n - 1, mp))]]

RECURSIVE Flatten(_)
Flatten(qs) == IF qs = << >> THEN << >> ELSE qs[1] \o Flatten(Tail(qs))

\* [err, written]: err when the header row is not found
split_by_gauge_color(rs, source, header_anchor, mp) ==
    LET h == find_header_row_index(rs, header_anchor)
    IN  IF h = None THEN [err |-> TRUE, written |-> << >>]
        ELSE IF HeaderGet(rs[h[1]], WireId) = None THEN [err |-> FALSE, written |-> << >>]
        ELSE
        LET hdr_idx == h[1]
            col_wire == HeaderGet(rs[hdr_idx], WireId)[1]
            col_aid == HeaderGet(rs[hdr_idx], ArticleId)
            groups == BuildGroups(rs, hdr_idx + 1, col_wire, col_aid, << >>)
            sp == parse_section_panel_from_filename(source)
        IN  [err |-> FALSE,
             written |-> Flatten([k \in DOMAIN groups |->
                            GroupChunks(rs, hdr_idx, groups[k], sp[1], sp[2], mp)])]

----------------------------------------------------------------------------
(* Inputs                                                                  *)

Cell(pos, text, ss_type) ==
    [hasIdx |-> TRUE, idx |-> pos, hasData |-> TRUE, text |-> text, type |-> ss_type]

\* a cell without ss:Index: its position is the running counter
DenseCell(text, ss_type) ==
    [hasIdx |-> FALSE, idx |-> 0, hasData |-> TRUE, text |-> text, type |-> ss_type]

OptCell(pos, v, ss_type) == IF v = None THEN << >> ELSE <<Cell(pos, v[1], ss_type)>>

\* --crimp-id default
DefaultCrimpId == <<"0","1","8","7","6","9","-","0","2","5">>

OtherCrimpId == <<"R","2">>

HeaderFull == <<DenseCell(OrderId, "String"), Cell(6, ArticleId, "String"), Cell(11, WireId, "String")>>

\* no "Article ID" and no "Wire ID" header: the engine falls back to columns 6 and 11
HeaderBare == <<DenseCell(OrderId, "String")>>

HeaderNoArticle == <<DenseCell(OrderId, "String"), Cell(11, WireId, "String")>>

\* a data row: order number, Article ID (6), Wire ID (11), the neighbours 13/14 and
\* 17/18 (n), and the crimp columns 15 and 19
DataRow(aid, wire, n, v15, v19) ==
    <<DenseCell(<<"7">>, "Number")>>
    \o OptCell(6, aid, "String")
    \o OptCell(11, wire, "String")
    \o (IF n = None THEN << >> ELSE <<Cell(13, n[1], "Number"), DenseCell(n[1], "Number")>>)
    \o OptCell(15, v15, "String")
    \o (IF n = None THEN << >> ELSE <<Cell(17, n[1], "Number"), DenseCell(n[1], "Number")>>)
    \o OptCell(19, v19, "String")

AidLeft == <<"P","S","S","1"," ","F","O","O">>

AidRight == <<"F","O","O"," "," ","P","S","S","2",":","1">>

AidBoth == <<"p","s","s","1"," ","x"," ","F","4","C","B","C","S","A">>

AidNeither == <<"F","O","O"," ","B","A","R">>

AidPlcio == <<"B","A","R"," ","p","l","c","i","o","7">>

Wire14 == <<"1","4","-","R","E","D">>

Wire18 == <<"1","8","-","W","H","T">>

Wire18Spaced == <<"1","8"," ","-"," ","W","H","T">>

WireBad == <<"W","H","T","1","8">>

CrimpValues == {None, Some(<<"X">>), Some(DefaultCrimpId), Some(<<" ">>)}

CrimpAids == {None, Some(AidLeft), Some(AidRight), Some(AidBoth), Some(AidNeither)}

\* rows of a 14 AWG wire, with and without cells in the neighbour columns
CrimpRows ==
    {DataRow(aid, Some(Wire14), n, v15, v19) :
        aid \in CrimpAids, n \in {None, Some(<<"5">>)},
        v15 \in CrimpValues, v19 \in CrimpValues}

\* rows of an 18 AWG wire
CrimpRows18 ==
    {DataRow(aid, Some(Wire18), Some(<<"5">>), v15, v19) :
        aid \in CrimpAids \ {None}, v15 \in CrimpValues, v19 \in CrimpValues}

\* a few rows for the tables with a bare header or a second data row
CrimpRowsFew ==
    {DataRow(aid, Some(Wire14), Some(<<"5">>), v15, v19) :
        aid \in {Some(AidLeft), Some(AidBoth)},
        v15 \in CrimpValues, v19 \in {None, Some(DefaultCrimpId)}}

CrimpSecondRows == {DataRow(Some(AidLeft), Some(Wire14), None, None, None)}

CrimpTables ==
    {<<HeaderFull, r>> : r \in CrimpRows \cup CrimpRows18}
    \cup {<<HeaderBare, r>> : r \in CrimpRowsFew}
    \cup {<<HeaderFull, r, q>> : r \in CrimpRowsFew, q \in CrimpSecondRows}

CrimpSources == {<<"s","5","D","p","C","1","4",".","x","m","l">>, <<"o","u","t","/","s","5","D","p","B","1","4",".","x","m","l">>, <<"s","5","D",".","x","m","l">>}

\* a file name whose panel token carries the gauge 0
GaugeZeroSource == <<"s","5","D","p","C","0",".","x","m","l">>

SplitSources == {<<"s","5","D","p","C","1","4",".","x","m","l">>, <<"w","i","r","e","s",".","x","m","l">>}

BaseRule ==
    [panels |-> {}, gauges |-> {}, tokens_left |-> {<<"P","S","S">>},
     tokens_right |-> {<<"p","s","s">>}, tokens_any |-> {}, prefer_when_both |-> None,
     columns |-> [left |-> 15, right |-> 19], crimp_id |-> DefaultCrimpId]

FooRule ==
    [BaseRule EXCEPT !.tokens_left = {}, !.tokens_right = {}, !.tokens_any = {<<"F","O","O">>},
                     !.prefer_when_both = Some(<<"R","i","g","h","t">>),
                     !.crimp_id = OtherCrimpId]

RuleSets ==
    { [defaults_prefer |-> None, rules |-> << >>],
      [defaults_prefer |-> None, rules |-> <<BaseRule>>],
      [defaults_prefer |-> Some(Right), rules |-> <<[BaseRule EXCEPT !.panels = {<<"c">>}, !.gauges = {14}]>>],
      [defaults_prefer |-> None, rules |-> <<[BaseRule EXCEPT !.columns = [left |-> 15, right |-> 14]]>>],
      [defaults_prefer |-> None, rules |-> <<[BaseRule EXCEPT !.columns = [left |-> 2, right |-> 19]]>>],
      [defaults_prefer |-> None, rules |-> <<[FooRule EXCEPT !.gauges = {18}], BaseRule>>],
      [defaults_prefer |-> None, rules |-> <<FooRule, BaseRule>>] }

SplitRows ==
    { DataRow(Some(AidLeft), Some(Wire18), None, None, None),
      DataRow(Some(AidNeither), Some(Wire18Spaced), None, None, None),
      DataRow(Some(AidPlcio), Some(Wire18), None, None, None),
      DataRow(Some(AidNeither), Some(Wire14), None, None, None),
      DataRow(None, Some(WireBad), None, None, None),
      DataRow(Some(AidPlcio), None, None, None, None) }

MaxRows == 3

MaxPer == 2

RECURSIVE SeqsUpTo(_, _)
SeqsUpTo(S, n) ==
    IF n = 0 THEN {<< >>}
    ELSE SeqsUpTo(S, n - 1) \cup {Append(q, x) : q \in SeqsUpTo(S, n - 1), x \in S}

SplitTables ==
    {<<h>> \o q : h \in {HeaderFull, HeaderBare, HeaderNoArticle}, q \in SeqsUpTo(SplitRows, MaxRows)}

\* header row of the fixer tables: the anchor and the named columns in hs, each at its
\* place in FixColumns
FixColumns ==
    <<OrderId, ArticleGroup, WireId, Printer1Id, BeginText, EndText,
      BeginDistance, EndlessDistance, EndDistance, WireLength>>

RECURSIVE FixCells(_, _)
FixCells(vals, k) ==
    IF k > Len(vals) THEN << >>
    ELSE OptCell(k, vals[k][1], vals[k][2]) \o FixCells(vals, k + 1)

FixHeader(absent) ==
    FixCells([k \in DOMAIN FixColumns |->
                 <<IF FixColumns[k] \in absent THEN None ELSE Some(FixColumns[k]), "String">>], 1)

FixHeaders ==
    {FixHeader(a) : a \in {{}, {BeginText}, {EndText}, {BeginText, EndText}, {WireId},
                           {Printer1Id}, {ArticleGroup}, {EndlessDistance}, {WireLength}}}

\* a data row of the fixer tables from <<optional text, type>> per column
FixRow(vals) == FixCells(vals, 1)

Txt(t) == <<Some(t), "String">>

Num(t) == <<Some(t), "Number">>

NoCell == <<None, "String">>

FixRows ==
    { FixRow(<<Num(<<"7">>), NoCell, NoCell, NoCell, NoCell, NoCell, NoCell, NoCell, NoCell, NoCell>>),
      FixRow(<<Num(<<"7">>), Txt(<<"J","7"," ","o","l","d">>), Txt(Wire18), Txt(<<"A","W","G"," ","1","8","W","H","T">>),
               Txt(<<"a">>), Txt(<<"b">>), Num(<<"1">>), Num(<<"1">>), Num(<<"1">>), Num(<<"3","0","0">>)>>),
      FixRow(<<Num(<<"7">>), NoCell, Txt(<<" ","1","4"," ","-"," ","r","e","d">>), Num(<<"A","W","G"," ","1","4","r","e","d">>),
               Txt(<< >>), Txt(<<"b">>), Txt(<<"0",".","7","9">>), Num(<<"4">>), Num(<<"0",".","7","9">>), Txt(<<" ","3","0","0"," ">>)>>),
      FixRow(<<Num(<<"7">>), Txt(<<"-"," ","x">>), Txt(WireBad), NoCell,
               Txt(<<"a">>), NoCell, NoCell, Txt(<<"4">>), NoCell, Num(<<"2","0","0">>)>>),
      FixRow(<<Num(<<"7">>), Txt(<<" "," ","K","9">>), NoCell, Txt(<<"x">>),
               NoCell, Txt(<<" ">>), Num(<<"0",".","7","9">>), Num(<<"4">>), Num(<<"0",".","7","9">>), NoCell>>),
      FixRow(<<Num(<<"7">>), Txt(<< >>), Txt(Wire18Spaced), Txt(<< >>),
               Txt(<<"a">>), Txt(<<"b">>), Num(<<"4">>), Num(<<"0",".","7","9">>), Txt(<<"x">>), Num(<<"3","0","0","0">>)>>) }

\* a second data row, with cells out of column order
FixSecondRows ==
    { <<Cell(10, <<"3","0","0">>, "String"), Cell(3, Wire14, "String"), Cell(5, <<"t">>, "String")>> }

FixTables ==
    {<<h, r>> : h \in FixHeaders, r \in FixRows}
    \cup {<<FixHeader({}), r, q>> : r \in FixRows, q \in FixSecondRows}
    \cup {<<FixHeader({BeginText}), q, r>> : r \in FixRows, q \in FixSecondRows}
    \cup {<<r>> : r \in FixRows}

NullSource == <<"2","0","3","2","1","P"," ","n","u","l","l",".","x","m","l">>

FixSources == {<<"s","5","D","p","C","1","4",".","x","m","l">>, NullSource, <<"w","i","r","e","s",".","x","m","l">>}

MaxFixRuns == 2

MaxCol == 3

MaxCalls == 2

\* rows of fewer than MaxCol cells, with and without ss:Index, in any document order, in
\* which no two cells share a column position
CellRows ==
    {r \in SeqsUpTo({DenseCell(<<"a">>, "String")}
                     \cup {Cell(k, <<"b">>, "String") : k \in 1..MaxCol}, MaxCol - 1) :
        Cardinality(Positions(r)) = Len(r)}

NoWrites(rs) == [i \in DOMAIN rs |-> << >>]

NoRule(rs) == [i \in DOMAIN rs |-> 0]

----------------------------------------------------------------------------
(* Runs                                                                    *)

\* no rules path: --rules omitted and no crimp_rules.json next to the script
NoRulesFile == [kind |-> "absent"]

\* The rules path holds [kind, data]: "unreadable" (open fails), "invalid_json"
\* (json.load fails), "wrong_shape" (the JSON value is no object, or its "rules" is no
\* list of objects with lists of patterns: data.get / rule.get / re.compile fails), or
\* "ok" with the rule set data.  Every failure is caught and gives None.
load_rules_file(rf) == IF rf.kind = "ok" THEN Some(rf.data) ELSE None

\* a rule without the "crimp_id" key
WithoutCrimpId(rule) == [f \in DOMAIN rule \ {"crimp_id"} |-> rule[f]]

RulesFiles ==
    { NoRulesFile, [kind |-> "unreadable"], [kind |-> "invalid_json"], [kind |-> "wrong_shape"],
      [kind |-> "ok", data |-> [defaults_prefer |-> None, rules |-> << >>]],
      [kind |-> "ok", data |-> [defaults_prefer |-> None, rules |-> <<BaseRule>>]],
      [kind |-> "ok", data |-> [defaults_prefer |-> None, rules |-> <<WithoutCrimpId(BaseRule)>>]] }

\* header and data row of a table with the fixers' columns and an Article ID column
MainHeader == FixHeader({}) \o <<Cell(12, ArticleId, "String")>>

MainRow(aid, v15, v19) ==
    FixRow(<<Num(<<"7">>), NoCell, Txt(Wire14), NoCell, Txt(<<"a">>), NoCell, NoCell, NoCell,
             NoCell, Num(<<"3","0","0">>)>>)
    \o <<Cell(12, aid, "String")>> \o OptCell(15, v15, "String") \o OptCell(19, v19, "String")

\* an input file: its path, whether the document has a Table element, the table's rows
File(path, rs) == [path |-> path, table |-> TRUE, rows |-> rs]

NoTableFile(path) == [path |-> path, table |-> FALSE, rows |-> << >>]

MainFiles ==
    { File(<<"s","5","D","p","C","1","4",".","x","m","l">>, <<MainHeader, MainRow(AidLeft, None, None)>>),
      File(NullSource, <<MainHeader, MainRow(AidRight, Some(<<"X">>), Some(<<"Y">>)), MainRow(AidNeither, None, None)>>),
      File(<<"w","i","r","e","s",".","x","m","l">>, <<MainRow(AidLeft, None, None)>>),
      NoTableFile(<<"s","5","D",".","x","m","l">>) }

MaxFiles == 2

\* a table was parsed; nothing has run on it yet
Loaded(rs) ==
    /\ rows = rs
    /\ input = rs
    /\ pc = "loaded"
    /\ before = rs
    /\ writes = NoWrites(rs)
    /\ changed = 0
    /\ rule_used = NoRule(rs)
    /\ written = << >>
    /\ in_paths = << >>
    /\ cur = 0
    /\ rules_file = NoRulesFile
    /\ no_auto_crimp = FALSE
    /\ log = << >>

InitCrimp ==
    /\ \E rs \in CrimpTables : Loaded(rs)
    /\ rules \in {None} \cup {Some(x) : x \in RuleSets}
    /\ src \in (IF rules = None THEN CrimpSources \cup {GaugeZeroSource} ELSE CrimpSources)
    /\ crimp_id = DefaultCrimpId
    /\ prefer_when_both \in (IF rules = None THEN {Left, Right} ELSE {Left})
    /\ max_per = 1

InitSplit ==
    /\ \E rs \in SplitTables : Loaded(rs)
    /\ src \in SplitSources
    /\ rules = None
    /\ crimp_id = DefaultCrimpId
    /\ prefer_when_both = Left
    /\ max_per \in 1..MaxPer

\* one run of the crimp engine over the table, with the outcome res
CrimpRun(res) ==
    /\ pc' = IF res.err THEN "failed" ELSE "crimped"
    /\ before' = rows
    /\ rows' = res.rows
    /\ writes' = res.writes
    /\ changed' = res.changed
    /\ rule_used' = res.rule_used
    /\ UNCHANGED <<src, input, rules, crimp_id, prefer_when_both, max_per, written,
                   in_paths, cur, rules_file, no_auto_crimp, log>>

\* main: "if rules and rules.get("rules")"
UseRules == rules # None /\ rules[1].rules # << >>

ApplyCrimpRules ==
    /\ pc \in {"loaded", "crimped"}
    /\ UseRules
    /\ CrimpRun(apply_crimp_rules(rows, src, rules[1], OrderId))

ApplyAutoCrimp ==
    /\ pc \in {"loaded", "crimped"}
    /\ ~UseRules
    /\ CrimpRun(apply_auto_crimp_endpoints(rows, src, OrderId, crimp_id, prefer_when_both))

Split ==
    /\ pc \in {"loaded", "crimped"}
    /\ LET res == split_by_gauge_color(rows, src, OrderId, max_per)
       IN  /\ pc' = IF res.err THEN "failed" ELSE "split"
           /\ written' = res.written
    /\ UNCHANGED <<src, rows, input, rules, crimp_id, prefer_when_both, max_per,
                   before, writes, changed, rule_used, in_paths, cur, rules_file,
                   no_auto_crimp, log>>

InitFix ==
    /\ \E rs \in FixTables : Loaded(rs)
    /\ src \in FixSources
    /\ rules = None
    /\ crimp_id = DefaultCrimpId
    /\ prefer_when_both = Left
    /\ max_per = 1

\* one run of the fixer called name over the table, with the outcome res
FixRun(name, res) ==
    /\ pc' = IF res.err THEN "failed" ELSE name
    /\ before' = rows
    /\ rows' = res.rows
    /\ writes' = res.writes
    /\ changed' = res.changed
    /\ log' = Append(log, <<cur, name>>)
    /\ UNCHANGED <<src, input, rules, crimp_id, prefer_when_both, max_per, rule_used,
                   written, in_paths, cur, rules_file, no_auto_crimp>>

\* a fixer may be called on the table as long as no earlier call raised
CanFix == pc # "failed" /\ Len(log) < MaxFixRuns

ClearPrinterTexts == CanFix /\ FixRun("clear_printer_texts", clear_printer_texts(rows, OrderId))

SetPrinter1FromWireId ==
    CanFix /\ FixRun("set_printer1_from_wireid", set_printer1_from_wireid(rows, OrderId))

SetArticleGroup == CanFix /\ FixRun("set_article_group", set_article_group(rows, src, OrderId))

SetLastThreeDistances ==
    CanFix /\ FixRun("set_last_three_distances", set_last_three_distances(rows, OrderId))

FixWireLengthForNullFiles ==
    CanFix /\ FixRun("fix_wire_length_for_null_files",
                     fix_wire_length_for_null_files(rows, src, OrderId))

NextFix ==
    \/ ClearPrinterTexts
    \/ SetPrinter1FromWireId
    \/ SetArticleGroup
    \/ SetLastThreeDistances
    \/ FixWireLengthForNullFiles

\* main was started on one or more input files
InitMain ==
    /\ in_paths \in SeqsUpTo(MainFiles, MaxFiles) \ {<< >>}
    /\ cur = 0
    /\ rules_file \in RulesFiles
    /\ no_auto_crimp \in BOOLEAN
    /\ rules = None
    /\ src = << >>
    /\ rows = << >>
    /\ input = << >>
    /\ before = << >>
    /\ writes = << >>
    /\ changed = 0
    /\ rule_used = << >>
    /\ written = << >>
    /\ log = << >>
    /\ pc = "start"
    /\ crimp_id = DefaultCrimpId
    /\ prefer_when_both = Left
    /\ max_per = 1

\* "for in_path in args.in_paths": the next file is parsed and the rules file loaded
ParseTree ==
    /\ pc \in {"start", "split_by_gauge_color"}
    /\ cur < Len(in_paths)
    /\ cur' = cur + 1
    /\ src' = in_paths[cur'].path
    /\ rows' = in_paths[cur'].rows
    /\ input' = rows'
    /\ before' = rows'
    /\ writes' = NoWrites(rows')
    /\ rule_used' = NoRule(rows')
    /\ changed' = 0
    /\ rules' = load_rules_file(rules_file)
    /\ pc' = "parse_tree"
    /\ log' = Append(log, <<cur', "parse_tree">>)
    /\ UNCHANGED <<crimp_id, prefer_when_both, max_per, written, in_paths, rules_file,
                   no_auto_crimp>>

\* the outcome of a step that starts with get_rows(find_table(root)): without a Table
\* element find_table returns None and get_rows raises
OnTable(res) == IF in_paths[cur].table THEN res ELSE EngineFailed(rows)

MainClearPrinterTexts ==
    /\ pc = "parse_tree"
    /\ FixRun("clear_printer_texts", OnTable(clear_printer_texts(rows, OrderId)))

MainSetPrinter1FromWireId ==
    /\ pc = "clear_printer_texts"
    /\ FixRun("set_printer1_from_wireid", OnTable(set_printer1_from_wireid(rows, OrderId)))

MainSetArticleGroup ==
    /\ pc = "set_printer1_from_wireid"
    /\ FixRun("set_article_group", OnTable(set_article_group(rows, src, OrderId)))

MainSetLastThreeDistances ==
    /\ pc = "set_article_group"
    /\ FixRun("set_last_three_distances", OnTable(set_last_three_distances(rows, OrderId)))

MainFixWireLength ==
    /\ pc = "set_last_three_distances"
    /\ FixRun("fix_wire_length_for_null_files",
              OnTable(fix_wire_length_for_null_files(rows, src, OrderId)))

\* one run of the crimp engine in main, by the strategy called name
MainCrimpRun(name, res) ==
    /\ pc' = IF res.err THEN "failed" ELSE name
    /\ before' = rows
    /\ rows' = res.rows
    /\ writes' = res.writes
    /\ changed' = res.changed
    /\ rule_used' = res.rule_used
    /\ log' = Append(log, <<cur, name>>)
    /\ UNCHANGED <<src, input, rules, crimp_id, prefer_when_both, max_per, written,
                   in_paths, cur, rules_file, no_auto_crimp>>

MainApplyCrimpRules ==
    /\ pc = "fix_wire_length_for_null_files"
    /\ ~no_auto_crimp
    /\ UseRules
    /\ MainCrimpRun("apply_crimp_rules", OnTable(apply_crimp_rules(rows, src, rules[1], OrderId)))

MainApplyAutoCrimp ==
    /\ pc = "fix_wire_length_for_null_files"
    /\ ~no_auto_crimp
    /\ ~UseRules
    /\ MainCrimpRun("apply_auto_crimp_endpoints",
                    OnTable(apply_auto_crimp_endpoints(rows, src, OrderId, crimp_id,
                                                       prefer_when_both)))

SplitReadyAfterParse == pc \in {"parse_tree", "apply_crimp_rules", "apply_auto_crimp_endpoints"}

\* main reached the call of split_by_gauge_color
SplitReady ==
    \/ pc \in {"apply_crimp_rules", "apply_auto_crimp_endpoints"}
    \/ pc = "fix_wire_length_for_null_files" /\ no_auto_crimp

\* split_by_gauge_color writes the chunks of the current file
MainSplit ==
    /\ SplitReady
    /\ LET res == split_by_gauge_color(rows, src, OrderId, max_per)
       IN  /\ pc' = IF res.err THEN "failed" ELSE "split_by_gauge_color"
           /\ written' = written \o [k \in DOMAIN res.written |-> <<cur, res.written[k]>>]
    /\ log' = Append(log, <<cur, "split_by_gauge_color">>)
    /\ UNCHANGED <<src, rows, input, rules, crimp_id, prefer_when_both, max_per,
                   before, writes, changed, rule_used, in_paths, cur, rules_file,
                   no_auto_crimp>>

NextMain ==
    \/ ParseTree
    \/ MainClearPrinterTexts
    \/ MainSetPrinter1FromWireId
    \/ MainSetArticleGroup
    \/ MainSetLastThreeDistances
    \/ MainFixWireLength
    \/ MainApplyCrimpRules
    \/ MainApplyAutoCrimp
    \/ MainSplit

\* one row, on which get_or_create_cell_at_position is called
InitCell ==
    /\ \E r \in CellRows : Loaded(<<r>>)
    /\ src = << >>
    /\ rules = None
    /\ crimp_id = DefaultCrimpId
    /\ prefer_when_both = Left
    /\ max_per = 1

\* a call get_or_create_cell_at_position(row, pos_1b); the log keeps <<pos_1b, index in
\* the row of the cell returned>>
GetOrCreate ==
    /\ pc \in {"loaded", "called"}
    /\ Len(log) < MaxCalls
    /\ \E pos_1b \in 1..(MaxCol + 1) :
          LET r1 == get_or_create_cell_at_position(rows[1], pos_1b)
          IN  /\ rows' = <<r1>>
              /\ log' = Append(log, <<pos_1b, IF pos_1b \in Positions(rows[1])
                                              THEN CellAt(rows[1], pos_1b) ELSE Len(r1)>>)
    /\ before' = rows
    /\ pc' = "called"
    /\ UNCHANGED <<src, input, rules, crimp_id, prefer_when_both, max_per, writes, changed,
                   rule_used, written, in_paths, cur, rules_file, no_auto_crimp>>

NextCell == GetOrCreate

MaxScanRows == 3

\* cell texts of the rows searched: the anchor, the anchor padded with white space, the
\* anchor with a doubled space, the anchor with a zero-width space in it, another label
AnchorTexts ==
    {OrderId,
     <<" ">> \o OrderId \o <<"\t">>,
     <<"O","r","d","e","r"," "," ","I","D">>,
     <<"O","r","d","e","r",ZWSP," ","I","D">>,
     WireId}

\* rows searched: no cell, one cell (with or without Data), the anchor in a second cell
ScanRows ==
    {<< >>, <<NewCell(2)>>, <<DenseCell(WireId, "String"), Cell(3, OrderId, "String")>>}
    \cup {<<DenseCell(t, "String")>> : t \in AnchorTexts}

ScanTables == SeqsUpTo(ScanRows, MaxScanRows)

\* scan_limit: none of the rows, some of them, all of them, more than there are
ScanLimits == 0..(MaxScanRows + 1)

\* a table, on which find_header_row_index is called
InitHeader ==
    /\ \E rs \in ScanTables : Loaded(rs)
    /\ src = << >>
    /\ rules = None
    /\ crimp_id = DefaultCrimpId
    /\ prefer_when_both = Left
    /\ max_per = 1

\* a call find_header_row_index(rows, "Order ID", scan_limit); the log keeps
\* <<module, scan_limit, index returned (None: RuntimeError)>>
Searched(module, scan_limit, res) ==
    /\ pc = "loaded"
    /\ pc' = "searched"
    /\ log' = Append(log, <<module, scan_limit, res>>)
    /\ UNCHANGED <<src, rows, input, rules, crimp_id, prefer_when_both, max_per, before,
                   writes, changed, rule_used, written, in_paths, cur, rules_file,
                   no_auto_crimp>>

FindHeaderFixSheet ==
    \E scan_limit \in ScanLimits :
        Searched("fix_sheet", scan_limit, FindHeaderRowIndex(rows, OrderId, scan_limit))

FindHeaderBuildMain ==
    \E scan_limit \in ScanLimits :
        Searched("build_main_from_wires", scan_limit,
                 FindHeaderRowIndexNormalized(rows, OrderId, scan_limit))

NextHeader == FindHeaderFixSheet \/ FindHeaderBuildMain

NextCrimp == ApplyCrimpRules \/ ApplyAutoCrimp

NextSplit == Split

SpecCrimp == InitCrimp /\ [][NextCrimp]_vars

SpecSplit == InitSplit /\ [][NextSplit]_vars

SpecFix == InitFix /\ [][NextFix]_vars

SpecMain == InitMain /\ [][NextMain]_vars

SpecCell == InitCell /\ [][NextCell]_vars

SpecHeader == InitHeader /\ [][NextHeader]_vars

----------------------------------------------------------------------------
(* Notions the properties below are stated with                            *)

\* index of the header row of the table (every table of Init has one)
HdrIdx == find_header_row_index(rows, OrderId)[1]

\* indices of the data rows: the rows after the header row
DataIdx == (HdrIdx + 1)..Len(rows)

HasWireHeader == HeaderGet(rows[HdrIdx], WireId) # None

\* <<gc, is_plcio>> of data row r, for a table whose header names Wire ID
KeyOf(r) == GroupKey(rows[r], HeaderGet(rows[HdrIdx], WireId)[1], HeaderGet(rows[HdrIdx], ArticleId))

\* the buckets split_by_gauge_color forms: none when it returns at the missing header
Buckets == IF HasWireHeader THEN {KeyOf(r) : r \in DataIdx} ELSE {}

\* the places <<k, j>> of the emitted chunks: row j of chunk k
Places == UNION {{<<k, j>> : j \in DOMAIN written[k].chunk} : k \in DOMAIN written}

\* the chunks emitted for a bucket, in emission order
ChunksOf(key) == SelectSeq(written, LAMBDA w : <<w.gc, w.is_plcio>> = key)

\* every emitted document is the rows up to the header followed by its chunk's rows
TablesHoldChunks ==
    \A k \in DOMAIN written :
        /\ Len(written[k].table) = HdrIdx + Len(written[k].chunk)
        /\ SubSeq(written[k].table, 1, HdrIdx) = SubSeq(rows, 1, HdrIdx)
        /\ \A j \in DOMAIN written[k].chunk :
              written[k].table[HdrIdx + j] = rows[written[k].chunk[j]]

EveryRowOnce ==
    /\ \A r \in DataIdx :
          Cardinality({p \in Places : written[p[1]].chunk[p[2]] = r}) = 1
    /\ \A p \in Places : written[p[1]].chunk[p[2]] \in DataIdx
    /\ SumSeq([k \in DOMAIN written |-> Len(written[k].table) - HdrIdx]) = Cardinality(DataIdx)
    /\ TablesHoldChunks

----------------------------------------------------------------------------
(* C1..C3: the splitter (under SpecSplit)                                  *)

\* C1 (as claimed): for every input table and every max_per >= 1, the emitted chunks
\* hold every data row exactly once, so their lengths sum to the number of data rows.
C1_AllRowsEmitted == pc = "split" => EveryRowOnce

\* C1 (amended): the same for every input table whose header row names a "Wire ID"
\* column; without that header split_by_gauge_color emits no chunk at all.
C1_AllRowsEmittedGivenWireHeader == (pc = "split" /\ HasWireHeader) => EveryRowOnce

C1_Witness ==
    /\ pc = "split"
    /\ HasWireHeader
    /\ Cardinality(DataIdx) >= 3
    /\ Cardinality(Buckets) >= 2
    /\ \E k \in DOMAIN written : written[k].i >= 1

\* C2: within each bucket, the chunks taken in chunk-index order hold the bucket's rows
\* in the order they have in the input table.
C2_StableOrder ==
    pc = "split" =>
        \A key \in Buckets :
            LET cs == ChunksOf(key)
            IN  /\ \A n \in DOMAIN cs : cs[n].i = n - 1
                /\ Flatten([n \in DOMAIN cs |-> cs[n].chunk])
                     = SelectSeq([r \in 1..Len(rows) |-> r],
                                 LAMBDA r : r \in DataIdx /\ KeyOf(r) = key)
                /\ \A n \in DOMAIN cs : \A j \in DOMAIN cs[n].chunk :
                      cs[n].table[HdrIdx + j] = rows[cs[n].chunk[j]]

\* a bucket written as two chunks whose rows are separated in the input by a row of
\* another bucket
C2_Witness ==
    /\ pc = "split"
    /\ \E a, b \in DOMAIN written :
          /\ <<written[a].gc, written[a].is_plcio>> = <<written[b].gc, written[b].is_plcio>>
          /\ written[a].i < written[b].i
          /\ \E r \in DataIdx :
                /\ KeyOf(r) # <<written[a].gc, written[a].is_plcio>>
                /\ written[a].chunk[Len(written[a].chunk)] < r
                /\ r < written[b].chunk[1]

\* C3: every chunk holds at most max_per rows, and a bucket of n rows is emitted as
\* exactly ceil(n / max_per) chunks.
C3_ChunkBound ==
    pc = "split" =>
        /\ \A k \in DOMAIN written : Len(written[k].chunk) <= max_per
        /\ \A k \in DOMAIN written : <<written[k].gc, written[k].is_plcio>> \in Buckets
        /\ \A key \in Buckets :
              LET n == Cardinality({r \in DataIdx : KeyOf(r) = key})
                  c == Len(ChunksOf(key))
              IN  (c - 1) * max_per < n /\ n <= c * max_per

\* a bucket of three rows cut into a chunk of two and a chunk of one
C3_Witness ==
    /\ pc = "split"
    /\ max_per = 2
    /\ \E a, b \in DOMAIN written :
          /\ <<written[a].gc, written[a].is_plcio>> = <<written[b].gc, written[b].is_plcio>>
          /\ Len(written[a].chunk) = 2
          /\ Len(written[b].chunk) = 1

----------------------------------------------------------------------------
(* Notions of the crimp engine properties (under SpecCrimp).  After a run, *)
(* before[r] is data row r as the run found it and rows[r] as it left it.  *)

PanelGauge == parse_panel_gauge_from_p_token(parse_section_panel_from_filename(src)[2])

ColWire == HeaderGetOr(rows[HdrIdx], WireId, 11)

ColAid == HeaderGetOr(rows[HdrIdx], ArticleId, 6)

RuleList == rules[1].rules

\* the prefer-when-both setting in force for rule k
PreferOf(k) ==
    LowerStr(IF RuleList[k].prefer_when_both # None THEN RuleList[k].prefer_when_both[1]
             ELSE IF rules[1].defaults_prefer # None THEN rules[1].defaults_prefer[1]
             ELSE Left)

\* the side (15 left, 19 right, 0 none) rule k decides for a row
SideOf(row, k) ==
    LET toks == first_last_endpoint_tokens(Strip(TextAt(row, ColAid)))
    IN  decide_side_by_rule(RuleList[k], toks[1], toks[2], PreferOf(k))

\* rule k's filters pass for the row and its patterns decide a side
Matches(row, k) ==
    /\ Strip(TextAt(row, ColAid)) # << >>
    /\ rule_matches_panel_gauge(RuleList[k], PanelGauge[1], PanelGauge[2], TextAt(row, ColWire))
    /\ SideOf(row, k) \in {15, 19}

\* the first rule in declaration order that matches the row, 0 when none does
FirstRule(row) ==
    LET ms == {k \in DOMAIN RuleList : Matches(row, k)}
    IN  IF ms = {} THEN 0 ELSE MinOf(ms)

\* the fallback strategy is in force for the row: panel C / gauge 14 gates passed and an
\* endpoint token matched
AutoEligible(row) ==
    LET toks == first_last_endpoint_tokens(Strip(TextAt(row, ColAid)))
        pg == PanelGauge
    IN  /\ pg[1] \in {None, Some(<<"C">>)}
        /\ pg[2] \in {None, Some(0), Some(14)}
        /\ \/ pg[2] = Some(14)
           \/ extract_gauge_from_wire_id(TextAt(row, ColWire)) = Some(14)
        /\ (token_matches_endpoint(toks[1]) \/ token_matches_endpoint(toks[2]))

\* the side token matching decides under the fallback strategy (before any flip)
AutoSide(row) ==
    LET toks == first_last_endpoint_tokens(Strip(TextAt(row, ColAid)))
        l == token_matches_endpoint(toks[1])
        r == token_matches_endpoint(toks[2])
    IN  IF l /\ r THEN (IF LowerStr(prefer_when_both) = Left THEN 15 ELSE 19)
        ELSE IF l THEN 15 ELSE 19

\* what the engine is to do with a row: whether it is eligible, its left and right
\* target columns, the column of the decided side (d), the other one (o), the crimp id
Plan(row) ==
    IF UseRules
    THEN LET k == FirstRule(row)
         IN  IF k = 0
             THEN [eligible |-> FALSE, left |-> 15, right |-> 19, d |-> 15, o |-> 19,
                   cid |-> << >>]
             ELSE LET c == RuleList[k].columns
                      left_side == SideOf(row, k) = 15
                  IN  [eligible |-> TRUE, left |-> c.left, right |-> c.right,
                       d |-> IF left_side THEN c.left ELSE c.right,
                       o |-> IF left_side THEN c.right ELSE c.left,
                       cid |-> RuleList[k].crimp_id]
    ELSE [eligible |-> AutoEligible(row), left |-> 15, right |-> 19,
          d |-> AutoSide(row), o |-> IF AutoSide(row) = 15 THEN 19 ELSE 15,
          cid |-> crimp_id]

Occupied(row, col) == Strip(TextAt(row, col)) # << >>

\* the crimp identifiers the strategy in force can assign
CrimpIds == IF UseRules THEN {RuleList[k].crimp_id : k \in DOMAIN RuleList} ELSE {crimp_id}

\* positions in the write log of row r where a crimp id (a non-empty text) was written
CrimpWrites(r) == {i \in DOMAIN writes[r] : writes[r][i][2] # << >>}

\* positions in the write log of row r where a cell was blanked
BlankWrites(r) == {i \in DOMAIN writes[r] : writes[r][i][2] = << >>}

\* ss:Type of the cell at a column, "none" without cell or Data
TypeAt(row, col) == IF col \in Positions(row) THEN row[CellAt(row, col)].type ELSE "none"

----------------------------------------------------------------------------
(* C4..C10: the crimp engine (under SpecCrimp)                             *)

\* C4: in one run, for every data row, the crimp identifier is written to at most one
\* of the two target columns.
C4_OneSidePerRun ==
    \A r \in DataIdx :
        /\ Cardinality(CrimpWrites(r)) <= 1
        /\ LET p == Plan(before[r])
           IN  Cardinality({c \in {p.left, p.right} :
                              /\ TextAt(rows[r], c) # TextAt(before[r], c)
                              /\ TextAt(rows[r], c) \in CrimpIds}) <= 1

\* a run of the fallback strategy that wrote the crimp id to column 19 of a row
C4_Witness ==
    /\ pc = "crimped"
    /\ ~UseRules
    /\ \E r \in DataIdx :
          /\ writes[r] # << >>
          /\ writes[r][1] = <<19, crimp_id, "String">>
          /\ TextAt(rows[r], 15) = << >>

BothHold(row) == \E id \in CrimpIds : TextAt(row, 15) = id /\ TextAt(row, 19) = id

\* C5: a row that did not hold the crimp identifier in both columns 15 and 19 initially
\* does not hold it in both after any number of consecutive runs.
C5_NeverBothSides ==
    \A r \in DataIdx : ~BothHold(input[r]) => ~BothHold(rows[r])

\* C6: a left or right target column that held a non-empty value different from the
\* crimp identifier before a run holds the same value after it.
C6_NoOverwrite ==
    \A r \in DataIdx :
        LET p == Plan(before[r])
        IN  \A c \in {p.left, p.right} :
                (Occupied(before[r], c) /\ Strip(TextAt(before[r], c)) # p.cid)
                    => TextAt(rows[r], c) = TextAt(before[r], c)

\* C7: when the decided side of an eligible row is occupied and the other target column
\* is empty, a run writes the crimp identifier to the other column.
C7_FlipToEmptySide ==
    pc = "crimped" =>
        \A r \in DataIdx :
            LET p == Plan(before[r])
            IN  (p.eligible /\ Occupied(before[r], p.d) /\ ~Occupied(before[r], p.o))
                    => TextAt(rows[r], p.o) = p.cid

\* C8: a row whose two target columns both hold non-empty values is skipped entirely:
\* no cell of it is written, blanked or created, and it is not counted as changed.
C8_BothOccupiedSkipped ==
    /\ changed = Cardinality({r \in DataIdx : writes[r] # << >>})
    /\ \A r \in DataIdx :
          LET p == Plan(before[r])
          IN  (Occupied(before[r], p.left) /\ Occupied(before[r], p.right))
                  => (rows[r] = before[r] /\ writes[r] = << >>)

\* a run of the declarative strategy met a row that a rule matched and whose two target
\* columns were both occupied
C8_Witness ==
    /\ pc = "crimped"
    /\ UseRules
    /\ \E r \in DataIdx :
          LET p == Plan(before[r])
          IN  /\ p.eligible
              /\ Occupied(before[r], p.left) /\ Occupied(before[r], p.right)
              /\ TextAt(before[r], p.left) # p.cid

\* C9: a run that writes the crimp identifier to column t of a row sets columns t-1 and
\* t-2 of it to the empty string with String type; in a row where it writes no crimp
\* identifier it blanks no cell.
C9_NeighboursBlanked ==
    \A r \in DataIdx :
        /\ \A i \in CrimpWrites(r) :
              LET t == writes[r][i][1]
              IN  /\ TextAt(rows[r], t) = writes[r][i][2]
                  /\ \A n \in {t - 1, t - 2} :
                        /\ n \in Positions(rows[r])
                        /\ rows[r][CellAt(rows[r], n)].hasData
                        /\ TextAt(rows[r], n) = << >>
                        /\ TypeAt(rows[r], n) = "String"
                        /\ \E j \in BlankWrites(r) : writes[r][j] = <<n, << >>, "String">>
        /\ CrimpWrites(r) = {} =>
              /\ BlankWrites(r) = {}
              /\ \A i \in DOMAIN before[r] : rows[r][i] = before[r][i]

\* a run wrote the crimp id next to two neighbour cells that held numbers
C9_Witness ==
    /\ pc = "crimped"
    /\ \E r \in DataIdx : \E i \in CrimpWrites(r) :
          LET t == writes[r][i][1]
          IN  /\ TextAt(before[r], t - 1) # << >> /\ TypeAt(before[r], t - 1) = "Number"
              /\ TextAt(before[r], t - 2) # << >> /\ TypeAt(before[r], t - 2) = "Number"

\* C10: under the declarative strategy evaluation stops at the first rule whose filters
\* pass and whose patterns decide a side: only that rule's crimp identifier and columns
\* are applied to the row, also when its write is blocked by an occupied column.
C10_FirstRuleWins ==
    (pc = "crimped" /\ UseRules) =>
        \A r \in DataIdx :
            LET k == FirstRule(before[r])
            IN  /\ rule_used[r] = k
                /\ k = 0 => (writes[r] = << >> /\ rows[r] = before[r])
                /\ k > 0 =>
                      LET c == RuleList[k].columns
                      IN  /\ \A i \in CrimpWrites(r) :
                                /\ writes[r][i][2] = RuleList[k].crimp_id
                                /\ writes[r][i][1] \in {c.left, c.right}
                          /\ \A i \in BlankWrites(r) :
                                writes[r][i][1] \in {c.left - 1, c.left - 2,
                                                     c.right - 1, c.right - 2}
                          /\ \A col \in Positions(rows[r]) :
                                TextAt(rows[r], col) # TextAt(before[r], col)
                                    => \/ (col \in {c.left, c.right}
                                           /\ TextAt(rows[r], col) = RuleList[k].crimp_id)
                                       \/ (col \in {c.left - 1, c.left - 2,
                                                    c.right - 1, c.right - 2}
                                           /\ TextAt(rows[r], col) = << >>)

\* the first matching rule was blocked by an occupied column while a later rule matches
\* the row too and its target column is empty
C10_Witness ==
    /\ pc = "crimped"
    /\ UseRules
    /\ \E r \in DataIdx :
          LET k == FirstRule(before[r])
          IN  /\ k > 0
              /\ writes[r] = << >>
              /\ \E j \in DOMAIN RuleList :
                    /\ j > k
                    /\ Matches(before[r], j)
                    /\ ~Occupied(before[r], IF SideOf(before[r], j) = 15
                                            THEN RuleList[j].columns.left
                                            ELSE RuleList[j].columns.right)

----------------------------------------------------------------------------
(* C11, C12: which files and rows the two strategies act on (SpecCrimp)    *)

\* the panel letter of the file name is one of the rule's panels, ignoring case
PanelListed(k) ==
    /\ PanelGauge[1] # None
    /\ Upper(PanelGauge[1][1]) \in {Upper(q) : q \in RuleList[k].panels}

\* the gauge of the file name or else the gauge read from the row's Wire ID is one of
\* the rule's gauges
GaugeListed(row, k) ==
    \/ PanelGauge[2] # None /\ PanelGauge[2][1] \in RuleList[k].gauges
    \/ LET g == extract_gauge_from_wire_id(TextAt(row, ColWire))
       IN  g # None /\ g[1] \in RuleList[k].gauges

Gauge14(row) ==
    \/ PanelGauge[2] = Some(14)
    \/ /\ PanelGauge[2] \in {None, Some(0)}
       /\ extract_gauge_from_wire_id(TextAt(row, ColWire)) = Some(14)

\* the number of data rows the last run wrote to
RowsWritten == Cardinality({r \in DataIdx : writes[r] # << >>})

----------------------------------------------------------------------------
(* C13..C16: the fixers (under SpecFix).  After a fixer ran, pc is its     *)
(* name, before the table it found, rows the table it left, writes its     *)
(* set_cell_text calls per row and changed the number it returned.         *)

Fixers ==
    {"clear_printer_texts", "set_printer1_from_wireid", "set_article_group",
     "set_last_three_distances", "fix_wire_length_for_null_files"}

\* the last step was a fixer call that returned, on a table that has a header row (on a
\* table without one only fix_wire_length_for_null_files returns, for a file name
\* without "null")
FixRan == pc \in Fixers /\ find_header_row_index(rows, OrderId) # None

\* the header names a fixer looks up
Required(f) ==
    CASE f = "clear_printer_texts" -> {BeginText, EndText}
      [] f = "set_printer1_from_wireid" -> {WireId, Printer1Id}
      [] f = "set_article_group" -> {ArticleGroup, WireId}
      [] f = "set_last_three_distances" -> {BeginDistance, EndlessDistance, EndDistance}
      [] f = "fix_wire_length_for_null_files" -> {WireLength}

\* the header names the last fixer looked up and the header row lacks
Unresolved == {n \in Required(pc) : HeaderGet(rows[HdrIdx], n) = None}

\* the last fixer call mutated nothing and returned 0
NoMutation ==
    /\ rows = before
    /\ changed = 0
    /\ \A r \in DOMAIN writes : writes[r] = << >>

C14_Idempotent ==
    (FixRan /\ Len(log) >= 2 /\ log[Len(log)] = log[Len(log) - 1]) => NoMutation

\* a fixer ran twice in a row, and its first run had changed the table
C14_Witness ==
    /\ pc = "set_article_group"
    /\ log = << <<0, "set_article_group">>, <<0, "set_article_group">> >>
    /\ rows # input
    /\ NoMutation

\* C15: after set_last_three_distances on a table with the three distance headers every
\* data row holds 0.79, 4 and 0.79 in those columns, each of Number type.
C15_DistancesNumber ==
    (FixRan /\ pc = "set_last_three_distances" /\ Unresolved = {}) =>
        \A r \in DataIdx :
            \A k \in 1..3 :
                LET col == HeaderGet(rows[HdrIdx],
                                     <<BeginDistance, EndlessDistance, EndDistance>>[k])[1]
                IN  /\ TextAt(rows[r], col) = DistanceVals[k]
                    /\ TypeAt(rows[r], col) = "Number"

\* C16: the number a fixer returns is the number of data rows it changed, and so is at
\* most the number of data rows.
C16_CountsRows ==
    FixRan =>
        /\ changed = Cardinality({r \in DataIdx : rows[r] # before[r]})
        /\ changed <= Cardinality(DataIdx)

----------------------------------------------------------------------------
(* C17..C19: the per-file pipeline of main (under SpecMain)                *)

\* the steps logged for file i, in order
RECURSIVE StepsIn(_, _)
StepsIn(l, i) ==
    IF l = << >> THEN << >>
    ELSE (IF l[1][1] = i THEN <<l[1][2]>> ELSE << >>) \o StepsIn(Tail(l), i)

StepsOf(i) == StepsIn(log, i)

\* an exception left main
Failed == pc = "failed"

\* the run of main is over: an exception left it, or the loop over the files ended
Ended == Failed \/ (pc = "split_by_gauge_color" /\ cur = Len(in_paths))

\* the file has no Table element or no header row within the scan window
Structural(f) == ~f.table \/ find_header_row_index(f.rows, OrderId) = None

FixerOrder ==
    <<"clear_printer_texts", "set_printer1_from_wireid", "set_article_group",
      "set_last_three_distances", "fix_wire_length_for_null_files">>

Strategies == {"apply_crimp_rules", "apply_auto_crimp_endpoints"}

\* the chunks written for file i
ChunksOfFile(i) == {k \in DOMAIN written : written[k][1] = i}

\* C17: when one input file fails with a structural error, its processing is aborted and
\* every remaining input file of the run is still processed.
C17_RemainingFilesProcessed ==
    Ended =>
        \A i \in DOMAIN in_paths :
            /\ Structural(in_paths[i]) => ChunksOfFile(i) = {}
            /\ (\E j \in 1..(i - 1) : Structural(in_paths[j])) => StepsOf(i) # << >>

\* the pipeline of one file: the order its steps are to have, with or without the crimp
\* engine
Pipelines ==
    {<<"parse_tree">> \o FixerOrder \o c \o <<"split_by_gauge_color">> :
        c \in {<< >>} \cup {<<x>> : x \in Strategies}}

IsPrefix(a, b) == Len(a) <= Len(b) /\ a = SubSeq(b, 1, Len(a))

\* C18: for each file the steps occur in the order fixers 1 to 5, the crimp engine at
\* most once by one strategy, then the writing of chunks; chunks of a file are written
\* only by that last step, and a failure in a fixer or the crimp engine leaves none.
C18_PipelineOrder ==
    \A i \in DOMAIN in_paths :
        /\ \E p \in Pipelines : IsPrefix(StepsOf(i), p)
        /\ ChunksOfFile(i) # {} =>
              /\ StepsOf(i) \in Pipelines
              /\ ~(Failed /\ cur = i)
        /\ (Failed /\ cur = i) => ChunksOfFile(i) = {}

\* the crimp engine raised on the second file, after the first file's chunks were written
C18_Witness ==
    /\ Failed
    /\ cur = 2
    /\ StepsOf(2) = <<"parse_tree">> \o FixerOrder \o <<"apply_crimp_rules">>
    /\ ChunksOfFile(1) # {}
    /\ ChunksOfFile(2) = {}

\* the rules file cannot be read as a rule set, or holds a rule without crimp identifier
Malformed ==
    \/ rules_file.kind \in {"unreadable", "invalid_json", "wrong_shape"}
    \/ /\ rules_file.kind = "ok"
       /\ \E k \in DOMAIN rules_file.data.rules : "crimp_id" \notin DOMAIN rules_file.data.rules[k]

\* C19: with a malformed rule set the run does not fail in the crimp engine, which uses
\* the fallback strategy.
C19_MalformedRulesFallBack ==
    Malformed =>
        \A i \in DOMAIN in_paths :
            LET st == StepsOf(i)
            IN  /\ \A k \in DOMAIN st : st[k] # "apply_crimp_rules"
                /\ (Failed /\ cur = i) => st[Len(st)] \notin Strategies

----------------------------------------------------------------------------
(* C20: get_or_create_cell_at_position (under SpecCell)                    *)

\* C20: on a row whose cells have distinct positions, after any sequence of calls every
\* position is held by at most one cell, the cells already present keep their place and
\* position, a call for a present position adds no cell and returns the existing cell,
\* and two calls with the same position return the same cell.
C20_NoDuplicateColumn ==
    LET row == rows[1]
        old == before[1]
    IN  /\ Cardinality(Positions(row)) = Len(row)
        /\ \A i \in DOMAIN input[1] : row[i] = input[1][i] /\ PosOf(row, i) = PosOf(input[1], i)
        /\ pc = "called" =>
              LET call == log[Len(log)]
              IN  /\ call[2] \in DOMAIN row
                  /\ PosOf(row, call[2]) = call[1]
                  /\ call[1] \in Positions(old) => (row = old /\ call[2] = CellAt(old, call[1]))
        /\ \A a, b \in DOMAIN log : log[a][1] = log[b][1] => log[a][2] = log[b][2]

\* a cell was created for an absent position between present ones, and a second call for
\* that position returned it
C20_Witness ==
    /\ pc = "called"
    /\ Len(log) = 2
    /\ log[1] = log[2]
    /\ log[1][1] \notin Positions(input[1])
    /\ \E p \in Positions(input[1]) : p > log[1][1]
    /\ Len(rows[1]) = Len(input[1]) + 1


----------------------------------------------------------------------------
(* C21: the header row search                                              *)

\* the text a module compares with the anchor
Compared(module, text) ==
    IF module = "fix_sheet" THEN Strip(text) ELSE normalize_cell(text)

\* rows of the table that hold a cell whose compared text is the anchor
AnchorRows(module) ==
    {i \in DOMAIN rows :
        \E k \in DOMAIN rows[i] : Compared(module, get_cell_text(rows[i][k])) = OrderId}

\* rows inside the scan window
Window(scan_limit) == {i \in DOMAIN rows : i <= scan_limit}

\* the call made, once one was made
Call == [module |-> log[1][1], scan_limit |-> log[1][2], res |-> log[1][3]]

InWindow == AnchorRows(Call.module) \cap Window(Call.scan_limit)

\* C21 as stated: find_header_row_index returns the first row of the scan window that
\* holds the anchor, that row is the only row of the table holding the anchor, and the
\* call fails when no row of the window holds it.
C21_FirstAndOnlyAnchorRow ==
    pc = "searched" =>
        IF InWindow = {} THEN Call.res = None
        ELSE /\ Call.res = Some(MinOf(InWindow))
             /\ AnchorRows(Call.module) = {Call.res[1]}

\* C21, amended: find_header_row_index returns the first row of the scan window that
\* holds the anchor, whatever other rows hold it too, and the call fails when no row of
\* the window holds it.
C21_FirstAnchorRowInWindow ==
    pc = "searched" =>
        IF InWindow = {} THEN Call.res = None
        ELSE /\ Call.res = Some(MinOf(InWindow))
             /\ \A i \in InWindow : Call.res[1] <= i

\* a call that found the anchor in the second row, the anchor being also in a row
\* outside the window
C21_Witness ==
    /\ pc = "searched"
    /\ Call.res = Some(2)
    /\ Call.scan_limit = 2
    /\ 3 \in AnchorRows(Call.module)


----------------------------------------------------------------------------
(* C22: column positions                                                   *)

\* column positions of the cells of the table
TablePositions == UNION {Positions(rows[i]) : i \in DOMAIN rows}

\* columns of the set_cell_text calls of the last crimp engine run
WrittenColumns == UNION {{writes[i][k][1] : k \in DOMAIN writes[i]} : i \in DOMAIN writes}

\* C22: every cell of the table, and every cell the crimp engine wrote, is at a column
\* position >= 1, also under a rule that overrides the left and right target columns.
C22_PositivePositions ==
    /\ \A p \in TablePositions : p >= 1
    /\ \A c \in WrittenColumns : c >= 1


----------------------------------------------------------------------------
(* C23: one write contract for both strategies                             *)

\* set_cell_text calls of the declarative strategy, default columns 15/19, on a row
\* for which a rule with crimp id cid decided side d
RuleContract(row, d, cid) ==
    RuleApply(row, [BaseRule EXCEPT !.crimp_id = cid], 1, d).writes

\* set_cell_text calls of the fallback strategy with crimp id cid on a row for which
\* token matching decided side d
AutoContract(row, d, cid) ==
    LET v15 == TextAt(row, col15)
        v19 == TextAt(row, col19)
    IN  IF AutoSkip(v15, v19, cid) THEN << >>
        ELSE AutoWrite(row, AutoTarget(d = 15, d = 19, v15, v19, Left), cid).writes

\* C23: for a row the strategy in force decided a side for, with target columns 15 and
\* 19, the writes of the run are those of either strategy's write contract: given the
\* decided side, the crimp identifier and the row as the run found it, the declarative
\* and the fallback strategy both skip the row or both write the same target column and
\* blank the same two neighbours.
C23_SameWriteContract ==
    pc = "crimped" =>
        \A r \in DataIdx :
            LET p == Plan(before[r])
            IN  (p.eligible /\ p.left = 15 /\ p.right = 19) =>
                    /\ writes[r] = RuleContract(before[r], p.d, p.cid)
                    /\ writes[r] = AutoContract(before[r], p.d, p.cid)


----------------------------------------------------------------------------
(* C24: document order of the cells of a row                               *)

\* the cells of the row are in strictly increasing column-position order
Increasing(row) ==
    \A i, j \in DOMAIN row : i < j => PosOf(row, i) < PosOf(row, j)

\* C24: when every row of the input table has its cells in strictly increasing
\* position order, every row of the table still has after any sequence of crimp engine
\* runs, also after writes that created a cell for a column the row did not hold.
C24_CellsInPositionOrder ==
    (\A i \in DOMAIN input : Increasing(input[i])) =>
        (\A i \in DOMAIN rows : Increasing(rows[i]))

====
